---- MODULE Spec2Model ----
(***************************************************************************)
(* Conformer generation pipeline of DBGEN (db_gen_functions.py): sampler,  *)
(* embedding adapter, force-field minimisation, the duplicate filters, the *)
(* recursive torsion enumerator and the xTB/ANI refinement pass, for one   *)
(* molecule of a batch.                                                    *)
(*                                                                         *)
(* External engines (RDKit embedding, force field, RMSD, ASE optimiser)    *)
(* are modelled by their results: the ids an embedding call yields, the    *)
(* geometry and energy a minimisation leaves, whether an optimiser ran out *)
(* of steps.  A geometry is a record [core, tors]: core is a coarse class  *)
(* of everything but the rotatable dihedrals, tors the dihedral angle (in  *)
(* degrees) of each bond of rotmatches.                                    *)
(***************************************************************************)
EXTENDS Integers, Sequences, FiniteSets, TLC

\* ---------------------------------------------------------------- bounds
MaxConfs == 2
MaxCore == 1
MaxEnergy == 2
MaxDihedrals == 2
MaxDescriptor == 2
MaxMult == 2
BatchSize == 2

Cores == 0..MaxCore
Energies == 0..MaxEnergy
TorsVals == {60, 180}
ForceFields == {"MMFF", "UFF", "GAFF"}

Abs(x) == IF x < 0 THEN -x ELSE x
MinOf(a, b) == IF a < b THEN a ELSE b

RECURSIVE SumSeq(_)
SumSeq(s) == IF s = <<>> THEN 0 ELSE Head(s) + SumSeq(Tail(s))

RECURSIVE Pow(_, _)
Pow(b, e) == IF e = 0 THEN 1 ELSE b * Pow(b, e - 1)

InSeq(x, s) == \E j \in 1..Len(s) : s[j] = x

\* ----------------------------------------------------------- summary row
\* One row of dup_data; a cell is <<>> while unset (read back as nan).
Columns == {"Molecule", "RDKIT-Initial-samples", "RDKit-energy-duplicates",
            "RDKit-RMSD-and-energy-duplicates", "RDKIT-Unique-conformers",
            "RDKIT-Rotated-conformers", "RDKIT-Rotated-Unique-conformers",
            "Overall charge", "time (seconds)",
            "xTB-Initial-samples", "xTB-initial_energy_threshold",
            "xTB-RMSD-and-energy-duplicates", "xTB-Unique-conformers",
            "ANI1ccx-Initial-samples", "ANI1ccx-initial_energy_threshold",
            "ANI1ccx-RMSD-and-energy-duplicates", "ANI1ccx-Unique-conformers"}
nan == <<>>
EmptyRow == [c \in Columns |-> nan]
Cell(v) == <<v>>

VARIABLES
  args,            \* configuration (argparse namespace)
  mol,             \* the molecule: descriptors the pipeline reads
  pc,              \* position in conformer_generation
  status,          \* summ_search's status / gen; 2 while not yet set
  initial_confs,   \* number of conformers asked of the embedding engine
  rotmatches,      \* number of dihedrals in rotmatches (after nodihedrals)
  embed_calls,     \* the calls made to EmbedMultipleConfs, in order
  cids,            \* number of conformer ids embed_conf returned
  cenergy,         \* cenergy[c]: force-field energy of conformer c
  embedded,        \* geometry of conformer c as embedded (not minimised)
  outmols,         \* outmols[m][c]: geometry of conformer c in snapshot m
  energy_prop,     \* the Energy property of outmols[m]
  selectedcids_initial, selectedcids, eng_dup, eng_rms_dup,
  torsion_field,   \* force-field torsional term per 120-degree well
  rdkit_sdf,       \* records written to <name>_rdkit.sdf
  rotated_sdf,     \* records written to <name>_rdkit_rotated.sdf
  stages,          \* pipeline stages that ran for the molecule, in order
  dup_data,        \* the molecule's summary row
  log,             \* messages written to the log
  exit_status,     \* <<>> while running, <<code>> after sys.exit
  mm,              \* state of the running mult_min pass
  batch,           \* a batch of molecules sharing one args object
  com              \* a Gaussian input file being written

vars == <<args, mol, pc, status, initial_confs, rotmatches, embed_calls, cids,
          cenergy, embedded, outmols, energy_prop, selectedcids_initial,
          selectedcids, eng_dup, eng_rms_dup, torsion_field, rdkit_sdf,
          rotated_sdf, stages, dup_data, log, exit_status, mm, batch, com>>

searchVars == <<initial_confs, rotmatches, embed_calls, cids>>
minVars == <<cenergy, embedded, outmols, energy_prop>>
filterVars == <<selectedcids_initial, selectedcids, eng_dup, eng_rms_dup>>
fileVars == <<torsion_field, rdkit_sdf, rotated_sdf>>

\* ---------------------------------------------------------------- sampler
\* auto_sampling: mult_factor is a local; args is read, never written.
auto_sampling_drop_rings(mult_factor, m, a) ==
  LET mf == IF a.metal_complex /\ Len(a.metal_idx) > 0
            THEN mult_factor * 3 * Len(a.metal_idx) ELSE mult_factor
      auto_samples == 3 * m.NumRotatableBonds + 3 * m.NHOHCount
  IN IF auto_samples = 0 THEN mf ELSE mf * auto_samples

auto_sampling(mult_factor, m, a) ==
  LET mf == IF a.metal_complex /\ Len(a.metal_idx) > 0
            THEN mult_factor * 3 * Len(a.metal_idx) ELSE mult_factor
      auto_samples == 3 * m.NumRotatableBonds + 3 * m.NHOHCount
                      + 3 * m.NumSaturatedRings
  IN IF auto_samples = 0 THEN mf ELSE mf * auto_samples

\* ------------------------------------------------------ embedding adapter
\* The test after the first EmbedMultipleConfs call (lines 1594, 1602).
embed_retry_only_on_zero(ncids, n) == ncids = 0

embed_retry(ncids, n) == ncids = 0 \/ (ncids = 1 /\ n # 1)

\* embed_conf, given what the engine yields on the first call (k1) and
\* would yield on the retry (k2).  coord_Map is TRUE in the template case.
embed_conf(n, coord_Map, k1, k2) ==
  LET first == [useRandomCoords |-> FALSE, coordMap |-> coord_Map,
                numConfs |-> n, yield |-> k1]
      retry == [useRandomCoords |-> TRUE, coordMap |-> coord_Map,
                numConfs |-> n, yield |-> k2]
  IN IF embed_retry(k1, n)
     THEN [cids |-> k2, calls |-> <<first, retry>>,
           log |-> <<"Normal RDKit embeding process failed">>]
     ELSE [cids |-> k1, calls |-> <<first>>, log |-> <<>>]

\* ------------------------------------------------------------- geometry
Geom(c, t, k) == [core |-> c, tors |-> [i \in 1..k |-> t]]
Geoms(k) == {Geom(c, t, k) : c \in Cores, t \in TorsVals}

\* get_conf_RMS: best-fit RMSD of two geometries (0 for identical ones).
get_conf_RMS(g, h) ==
  Abs(g.core - h.core)
  + Cardinality({i \in 1..Len(g.tors) : g.tors[i] # h.tors[i]})

\* rdMolTransforms.SetDihedralDeg / SetDihedralRad on bond i.
SetDihedral(g, i, deg) == [g EXCEPT !.tors[i] = deg % 360]

\* "set torsions to same value": every dihedral of rotmatches to 180.
ResetDihedrals(g) == [g EXCEPT !.tors = [i \in 1..Len(g.tors) |-> 180]]

\* ------------------------------------------------- min_after_embed: filters
\* sorted(cids, key = lambda cid: cenergy[cid]): stable, by energy.
InsertByEnergy(s, c, en) ==
  LET before == Cardinality({j \in 1..Len(s) : en[s[j]] <= en[c]})
  IN SubSeq(s, 1, before) \o <<c>> \o SubSeq(s, before + 1, Len(s))

\* The conformer ids as they are numbered, not sorted.
cids_as_numbered(n, en) == [c \in 1..n |-> c]

RECURSIVE sortedcids(_, _)
sortedcids(n, en) ==
  IF n = 0 THEN <<>> ELSE InsertByEnergy(sortedcids(n - 1, en), n, en)

\* The test of the pre-filter loop (line 1692).
prefilter_dup_le(E_diff, thr) == E_diff <= thr

prefilter_dup(E_diff, thr) == E_diff < thr

\* One pass of the body of the pre-filter loop (lines 1683-1699).
prefilter_step_first_survivor_only(acc, i, conf, en, a) ==
  LET sel0 == IF i = 1 THEN Append(acc.sel, conf) ELSE acc.sel
      excluded_conf ==
          prefilter_dup(Abs(en[conf] - en[sel0[1]]), a.initial_energy_threshold)
  IN [sel |-> IF excluded_conf \/ InSeq(conf, sel0) THEN sel0
              ELSE Append(sel0, conf),
      dup |-> acc.dup + (IF excluded_conf THEN 1 ELSE 0)]

prefilter_step(acc, i, conf, en, a) ==
  LET sel0 == IF i = 1 THEN Append(acc.sel, conf) ELSE acc.sel
      excluded_conf == \E j \in 1..Len(sel0) :
          prefilter_dup(Abs(en[conf] - en[sel0[j]]), a.initial_energy_threshold)
  IN [sel |-> IF excluded_conf \/ InSeq(conf, sel0) THEN sel0
              ELSE Append(sel0, conf),
      dup |-> acc.dup + (IF excluded_conf THEN 1 ELSE 0)]

RECURSIVE prefilter_loop(_, _, _, _, _)
prefilter_loop(acc, i, sorted, en, a) ==
  IF i > Len(sorted) THEN acc
  ELSE prefilter_loop(prefilter_step(acc, i, sorted[i], en, a), i + 1,
                      sorted, en, a)

\* The energy pre-filter: selectedcids_initial and eng_dup (lines 1681-1700).
prefilter(sorted, en, a) ==
  prefilter_loop([sel |-> <<>>, dup |-> -1], 1, sorted, en, a)

\* One pass of the body of the energy+RMSD loop (lines 1711-1734).  The
\* dihedrals of conformer conf of outmols[conf] are reset; the RMSD is taken
\* inside outmols[conf], between its conformers seenconf and conf.
rmsd_filter_step(acc, i, conf, en, a) ==
  LET om == [acc.outmols EXCEPT ![conf][conf] = ResetDihedrals(@)]
      sel0 == IF i = 1 THEN Append(acc.sel, conf) ELSE acc.sel
      excluded_conf == \E j \in 1..Len(sel0) :
          /\ Abs(en[conf] - en[sel0[j]]) < a.energy_threshold
          /\ get_conf_RMS(om[conf][sel0[j]], om[conf][conf]) < a.rms_threshold
  IN [sel |-> IF excluded_conf \/ InSeq(conf, sel0) THEN sel0
              ELSE Append(sel0, conf),
      dup |-> acc.dup + (IF excluded_conf THEN 1 ELSE 0),
      outmols |-> om]

RECURSIVE rmsd_filter_loop(_, _, _, _, _)
rmsd_filter_loop(acc, i, initial, en, a) ==
  IF i > Len(initial) THEN acc
  ELSE rmsd_filter_loop(rmsd_filter_step(acc, i, initial[i], en, a), i + 1,
                        initial, en, a)

\* The calls of get_conf_RMS in one pass of the body (line 1726): the
\* seen conformers are taken in order for as long as none is a hit, and
\* the RMSD is asked for those within energy_threshold.
rms_calls(acc, i, conf, en, a) ==
  LET om == [acc.outmols EXCEPT ![conf][conf] = ResetDihedrals(@)]
      sel0 == IF i = 1 THEN Append(acc.sel, conf) ELSE acc.sel
      near(j) == Abs(en[conf] - en[sel0[j]]) < a.energy_threshold
      hit(j) == /\ near(j)
                /\ get_conf_RMS(om[conf][sel0[j]], om[conf][conf])
                     < a.rms_threshold
      call(j) == [mol1 |-> conf, mol2 |-> conf, c1 |-> sel0[j], c2 |-> conf,
                  made |-> near(j) /\ \A k \in 1..(j - 1) : ~hit(k),
                  probe |-> om[conf][sel0[j]], ref |-> om[conf][conf]]
  IN SelectSeq([j \in 1..Len(sel0) |-> call(j)], LAMBDA c : c.made)

RECURSIVE rms_calls_loop(_, _, _, _, _, _)
rms_calls_loop(acc, calls, i, initial, en, a) ==
  IF i > Len(initial) THEN calls
  ELSE rms_calls_loop(rmsd_filter_step(acc, i, initial[i], en, a),
                      calls \o rms_calls(acc, i, initial[i], en, a),
                      i + 1, initial, en, a)

\* The energy+RMSD filter: selectedcids, eng_rms_dup and the outmols it
\* leaves (lines 1709-1735).
rmsd_filter(initial, en, om, a) ==
  rmsd_filter_loop([sel |-> <<>>, dup |-> -1, outmols |-> om], 1, initial,
                   en, a)

\* --------------------------------------------------- torsion enumerator
\* Force-field energy of a rotamer: the conformer's own energy plus the
\* torsional term of the well each dihedral sits in.
FFCalcEnergy(g, base, field) ==
  base + SumSeq([i \in 1..Len(g.tors) |-> field[(g.tors[i] \div 120) + 1]])

\* The test of the while loop of genConformer_r (line 1522).
angle_in_range_inclusive(deg) == deg <= 360

angle_in_range(deg) == deg < 360

\* genConformer_r on the molecule state m = [geom, Energy] (the conformer is
\* changed in place and handed on), at depth i of k dihedrals.  Returns the
\* records written, their number and the molecule state left behind.
RECURSIVE genConformer_r(_, _, _, _, _, _, _)
RECURSIVE genConformer_while(_, _, _, _, _, _, _, _, _, _)
RECURSIVE genConformer_while_latest_first(_, _, _, _, _, _, _, _, _, _)
genConformer_r(m, i, k, degree, base, field, name) ==
  IF i > k
  THEN [written |-> <<[Energy |-> m.Energy, geom |-> m.geom, name |-> name]>>,
        total |-> 1, mol |-> m]
  ELSE genConformer_while(m, i, k, degree, base, field, name, 0, 0, <<>>)

\* The while loop of lines 1522-1540; sdwriter appends to the file.
genConformer_while_latest_first(m, i, k, degree, base, field, name, deg, total, written) ==
  IF ~angle_in_range(deg)
  THEN [written |-> written, total |-> total, mol |-> m]
  ELSE LET g == SetDihedral(m.geom, i, deg)
           m1 == [geom |-> g, Energy |-> FFCalcEnergy(g, base, field)]
           r == genConformer_r(m1, i + 1, k, degree, base, field, name)
       IN genConformer_while_latest_first(r.mol, i, k, degree, base, field,
                             name, deg + degree, total + r.total,
                             r.written \o written)

genConformer_while(m, i, k, degree, base, field, name, deg, total, written) ==
  IF ~angle_in_range(deg)
  THEN [written |-> written, total |-> total, mol |-> m]
  ELSE LET g == SetDihedral(m.geom, i, deg)
           m1 == [geom |-> g, Energy |-> FFCalcEnergy(g, base, field)]
           r == genConformer_r(m1, i + 1, k, degree, base, field, name)
       IN genConformer_while(r.mol, i, k, degree, base, field, name,
                             deg + degree, total + r.total,
                             written \o r.written)

\* The loop over selectedcids (lines 1758-1763): acc = [written, total,
\* outmols, energy_prop].
RECURSIVE enumerate_selected(_, _, _, _, _, _, _)
enumerate_selected(acc, j, sel, k, degree, en, field) ==
  IF j > Len(sel) THEN acc
  ELSE LET conf == sel[j]
           r == genConformer_r([geom |-> acc.outmols[conf][conf],
                                Energy |-> acc.energy_prop[conf]],
                               1, k, degree, en[conf], field, conf)
       IN enumerate_selected(
            [written |-> acc.written \o r.written,
             total |-> acc.total + r.total,
             outmols |-> [acc.outmols EXCEPT ![conf][conf] = r.mol.geom],
             energy_prop |-> [acc.energy_prop EXCEPT ![conf] = r.mol.Energy]],
            j + 1, sel, k, degree, en, field)

\* ------------------------------------------------- filter_after_rotation
\* The first accepted record j that makes record i a duplicate, and which
\* of the two tests it met (lines 1802-1812); 0 when none does.
RECURSIVE rotation_first_hit(_, _, _, _, _)
rotation_first_hit(j, sel, i, file, a) ==
  IF j > Len(sel) THEN [at |-> 0, kind |-> "none"]
  ELSE LET E_diff == Abs(file[i].Energy - file[sel[j]].Energy)
       IN IF E_diff < a.initial_energy_threshold
          THEN [at |-> j, kind |-> "energy"]
          ELSE IF /\ E_diff < a.energy_threshold
                  /\ get_conf_RMS(file[i].geom, file[sel[j]].geom)
                       < a.rms_threshold
          THEN [at |-> j, kind |-> "rms"]
          ELSE rotation_first_hit(j + 1, sel, i, file, a)

rotation_step(acc, i, file, a) ==
  LET first == acc.rd_count = 0
      sel0 == IF first THEN Append(acc.sel, i) ELSE acc.sel
      hit == rotation_first_hit(1, sel0, i, file, a)
      keep == hit.kind = "none" /\ ~InSeq(i, sel0)
  IN [sel |-> IF keep THEN Append(sel0, i) ELSE sel0,
      written |-> IF first \/ keep THEN Append(acc.written, file[i])
                  ELSE acc.written,
      rd_count |-> 1,
      rd_dup_energy |-> acc.rd_dup_energy
                        + (IF hit.kind = "energy" THEN 1 ELSE 0),
      rd_dup_rms_eng |-> acc.rd_dup_rms_eng
                         + (IF hit.kind = "rms" THEN 1 ELSE 0)]

RECURSIVE rotation_loop(_, _, _, _)
rotation_loop(acc, i, file, a) ==
  IF i > Len(file) THEN acc
  ELSE rotation_loop(rotation_step(acc, i, file, a), i + 1, file, a)

\* filter_after_rotation over the records of <name>_rdkit.sdf.
filter_after_rotation(file, a) ==
  rotation_loop([sel |-> <<>>, written |-> <<>>, rd_count |-> 0,
                 rd_dup_energy |-> -1, rd_dup_rms_eng |-> 0], 1, file, a)

\* -------------------------------------------------------------- mult_min
\* The comparison of a refined conformer with the accepted ones (lines
\* 2049-2060): the first accepted j it duplicates, and by which test.
RECURSIVE refine_first_hit(_, _, _, _, _)
refine_first_hit(j, acc, energy, geom, a) ==
  IF j > Len(acc.c_energy) THEN "none"
  ELSE LET E_diff == Abs(energy - acc.c_energy[j])
       IN IF E_diff < a.initial_energy_threshold THEN "energy"
          ELSE IF /\ E_diff < a.energy_threshold
                  /\ get_conf_RMS(geom, acc.outmols[j]) < a.rms_threshold
          THEN "rms"
          ELSE refine_first_hit(j + 1, acc, energy, geom, a)

\* The window test of line 2045, on a conformer optimize returned.
in_window_le(energy, globmin, ewin) == Abs(energy - globmin) <= ewin

in_window(energy, globmin, ewin) == Abs(energy - globmin) < ewin

\* The body of the loop of mult_min for one readable conformer whose
\* optimize call returned (converged, energy, geom) (lines 2038-2069).
mult_min_step_rejection_not_counted(acc, converged, energy, geom, a) ==
  LET globmin == IF acc.globmin = <<>> THEN energy
                 ELSE IF energy < acc.globmin[1] THEN energy
                 ELSE acc.globmin[1]
      hit == refine_first_hit(1, acc, energy, geom, a)
      acc1 == [acc EXCEPT !.globmin = <<globmin>>]
  IN IF converged = 0 /\ in_window(energy, globmin, a.ewin)
     THEN IF hit = "energy"
          THEN [acc1 EXCEPT !.n_dup_energy = @ + 1]
          ELSE IF hit = "rms"
          THEN [acc1 EXCEPT !.n_dup_rms_eng = @ + 1]
          ELSE [acc1 EXCEPT !.outmols = Append(@, geom),
                            !.c_energy = Append(@, energy)]
     ELSE acc1

mult_min_step(acc, converged, energy, geom, a) ==
  LET globmin == IF acc.globmin = <<>> THEN energy
                 ELSE IF energy < acc.globmin[1] THEN energy
                 ELSE acc.globmin[1]
      hit == refine_first_hit(1, acc, energy, geom, a)
      acc1 == [acc EXCEPT !.globmin = <<globmin>>]
  IN IF converged = 0 /\ in_window(energy, globmin, a.ewin)
     THEN IF hit = "energy"
          THEN [acc1 EXCEPT !.n_dup_energy = @ + 1]
          ELSE IF hit = "rms"
          THEN [acc1 EXCEPT !.n_dup_rms_eng = @ + 1]
          ELSE [acc1 EXCEPT !.outmols = Append(@, geom),
                            !.c_energy = Append(@, energy)]
     ELSE [acc1 EXCEPT !.n_high = @ + 1]

mult_min_start ==
  [globmin |-> <<>>, n_high |-> 0, n_dup_energy |-> 0, n_dup_rms_eng |-> 0,
   c_energy |-> <<>>, outmols |-> <<>>]

\* write_confs: the refined conformers, in energy order (lines 1999-2017).
write_confs(acc) ==
  LET order == sortedcids(Len(acc.c_energy), acc.c_energy)
  IN [j \in 1..Len(order) |->
        [Energy |-> acc.c_energy[order[j]], geom |-> acc.outmols[order[j]],
         name |-> j]]

Idle == [program |-> "none", input |-> <<>>, i |-> 0, ran_out |-> FALSE,
         acc |-> mult_min_start, written |-> <<>>]

Put(row, col, v) == [row EXCEPT ![col] = Cell(v)]

\* ----------------------------------------------------------------- actions
\* filters (lines 622-638) and the head of conformer_generation (469-472).
valid_structure_weight_only(m, a) == m.MolWt < a.max_MolWt

valid_structure(m, a) == m.MolWt < a.max_MolWt /\ m.atoms_possible

Filters ==
  /\ pc = "filters"
  /\ IF valid_structure(mol, args)
     THEN pc' = "summ_search" /\ log' = log
     ELSE /\ pc' = "cleanup"
          /\ log' = Append(log, "ERROR: The structure is not valid")
  /\ UNCHANGED <<args, mol, status, searchVars, minVars, filterVars, fileVars,
                 stages, dup_data, exit_status, mm>>
  /\ UNCHANGED <<batch, com>>

\* summ_search, lines 1843-1856: the number of samples and the row's name.
SummSearch_Sample ==
  /\ pc = "summ_search"
  /\ initial_confs' = IF args.sample_auto
                      THEN auto_sampling(args.auto_sample, mol, args)
                      ELSE args.sample
  /\ dup_data' = Put(dup_data, "Molecule", mol.name)
  /\ pc' = "admission"
  /\ UNCHANGED <<args, mol, status, rotmatches, embed_calls, cids, minVars,
                 filterVars, fileVars, stages, log, exit_status, mm>>
  /\ UNCHANGED <<batch, com>>

\* The admission test of line 1859.
too_many_torsions_off_by_one(n, max_torsions) == n > max_torsions + 1

too_many_torsions(n, max_torsions) == n > max_torsions

\* The cell summ_search writes once the molecule is admitted (line 1864).
admitted_row_written_early(row, n, admitted) ==
  Put(row, "RDKIT-Initial-samples", n)

admitted_row(row, n, admitted) ==
  IF admitted THEN Put(row, "RDKIT-Initial-samples", n) ELSE row

\* The bond count the admission test reads: the matches found at line 1858,
\* whatever nodihedrals says (the option empties the list at lines
\* 1865-1866 only, inside the admitted branch).
admission_rotmatches_after_nodihedrals(m, a) ==
  IF a.nodihedrals THEN 0 ELSE m.dihedrals

admission_rotmatches(m, a) == m.dihedrals

\* summ_search, lines 1858-1866: getDihedralMatches and the max_torsions test.
SummSearch_Admit ==
  /\ pc = "admission"
  /\ LET admitted == ~too_many_torsions(admission_rotmatches(mol, args),
                                        args.max_torsions)
     IN /\ dup_data' = admitted_row(dup_data, initial_confs, admitted)
        /\ IF admitted
           THEN /\ rotmatches' = IF args.nodihedrals THEN 0 ELSE mol.dihedrals
                /\ pc' = "embed"
                /\ UNCHANGED <<status, log>>
           ELSE /\ rotmatches' = mol.dihedrals
                /\ status' = -1
                /\ log' = Append(log, "x  Too many torsions. Skipping")
                /\ pc' = "search_tail"
  /\ UNCHANGED <<args, mol, initial_confs, embed_calls, cids, minVars,
                 filterVars, fileVars, stages, exit_status, mm>>
  /\ UNCHANGED <<batch, com>>

\* summ_search, lines 1867-1873: embed_conf, then the force-field switch.
SummSearch_Embed ==
  /\ pc = "embed"
  /\ \E k1 \in 0..MinOf(initial_confs, MaxConfs) :
       \E k2 \in (IF embed_retry(k1, initial_confs)
                  THEN 0..MinOf(initial_confs, MaxConfs) ELSE {0}) :
         LET r == embed_conf(initial_confs, mol.template, k1, k2)
         IN /\ cids' = r.cids
            /\ embed_calls' = r.calls
            /\ log' = log \o r.log
  /\ args' = IF mol.heavy_atom THEN [args EXCEPT !.ff = "UFF"] ELSE args
  /\ stages' = Append(stages, "embed")
  /\ pc' = "min_after_embed"
  /\ UNCHANGED <<mol, status, initial_confs, rotmatches, minVars, filterVars,
                 fileVars, dup_data, exit_status, mm>>
  /\ UNCHANGED <<batch, com>>

\* min_after_embed, lines 1612-1675: every conformer is minimised in turn
\* and the molecule is copied into outmols after each one, so snapshot m
\* holds conformers 1..m minimised and the later ones as embedded.
snapshot(m, c, emb, minimised) == IF c <= m THEN minimised[c] ELSE emb[c]

MinAfterEmbed_Minimize ==
  /\ pc = "min_after_embed"
  /\ IF cids > 0 /\ args.ff \notin {"MMFF", "UFF"}
     THEN /\ log' = Append(log, "Force field not supported!")
          /\ exit_status' = <<0>>
          /\ pc' = "exit"
          /\ UNCHANGED <<minVars, stages>>
     ELSE /\ \E confs \in [1..cids -> mol.landscape] :
               LET emb == [c \in 1..cids |->
                             Geom(confs[c].raw, confs[c].tors, rotmatches)]
                   minimised == [c \in 1..cids |->
                             Geom(confs[c].core, confs[c].tors, rotmatches)]
               IN /\ embedded' = emb
                  /\ cenergy' = [c \in 1..cids |-> confs[c].energy]
                  /\ energy_prop' = [c \in 1..cids |-> confs[c].energy]
                  /\ outmols' = [m \in 1..cids |-> [c \in 1..cids |->
                                   snapshot(m, c, emb, minimised)]]
          /\ stages' = Append(stages, "minimize")
          /\ pc' = "filter"
          /\ UNCHANGED <<log, exit_status>>
  /\ UNCHANGED <<args, mol, status, searchVars, filterVars, fileVars,
                 dup_data, mm>>
  /\ UNCHANGED <<batch, com>>

\* min_after_embed, lines 1677-1748: the two filters, the three counters
\* and the charge.
MinAfterEmbed_Filter ==
  /\ pc = "filter"
  /\ LET sorted == sortedcids(cids, cenergy)
         A == prefilter(sorted, cenergy, args)
         B == rmsd_filter(A.sel, cenergy, outmols, args)
     IN /\ selectedcids_initial' = A.sel
        /\ eng_dup' = A.dup
        /\ selectedcids' = B.sel
        /\ eng_rms_dup' = B.dup
        /\ outmols' = B.outmols
        /\ dup_data' = Put(Put(Put(Put(dup_data,
               "RDKit-energy-duplicates", A.dup),
               "RDKit-RMSD-and-energy-duplicates", B.dup),
               "RDKIT-Unique-conformers", Len(B.sel)),
               "Overall charge", mol.charge)
  /\ stages' = Append(stages, "filter")
  /\ pc' = "enumerate"
  /\ UNCHANGED <<args, mol, status, searchVars, cenergy, embedded,
                 energy_prop, fileVars, log, exit_status, mm>>
  /\ UNCHANGED <<batch, com>>

\* min_after_embed, lines 1750-1770: genConformer_r on every selected
\* conformer, writing <name>_rdkit.sdf.
\* The force-field test genConformer_r makes at every grid point (lines
\* 1527-1533), met at the first one.
enumerator_ff_fatal(a, k, sel) ==
  k > 0 /\ sel # <<>> /\ angle_in_range(0) /\ a.ff \notin {"MMFF", "UFF"}

\* A step that never brings deg up to 360 (deg += degree, line 1540): the
\* while loop of the innermost level then never ends.
angle_loop_endless(a, k, sel) == a.degree < 0 /\ k > 0 /\ sel # <<>>

MinAfterEmbed_Enumerate ==
  /\ pc = "enumerate"
  /\ IF args.degree = 0
     THEN \* 360 / args.degree at line 1751: ZeroDivisionError
          /\ pc' = "error"
          /\ exit_status' = <<1>>
          /\ UNCHANGED <<torsion_field, rdkit_sdf, outmols, energy_prop,
                         dup_data, status, stages, log>>
     ELSE IF enumerator_ff_fatal(args, rotmatches, selectedcids)
     THEN /\ log' = Append(log, "Force field not supported!")
          /\ exit_status' = <<0>>
          /\ pc' = "exit"
          /\ UNCHANGED <<torsion_field, rdkit_sdf, outmols, energy_prop,
                         dup_data, status, stages>>
     ELSE IF angle_loop_endless(args, rotmatches, selectedcids)
     THEN \* every level sets its dihedral to 0 and calls the next one
          /\ outmols' = [outmols EXCEPT
               ![selectedcids[1]][selectedcids[1]].tors =
                  [i \in 1..rotmatches |-> 0]]
          /\ pc' = "genConformer_r"
          /\ UNCHANGED <<torsion_field, rdkit_sdf, energy_prop, dup_data,
                         status, stages, log, exit_status>>
     ELSE /\ \E field \in (IF rotmatches > 0 /\ selectedcids # <<>>
                           THEN mol.torsion_fields ELSE {<<0, 0, 0>>}) :
               LET r == enumerate_selected(
                          [written |-> <<>>, total |-> 0, outmols |-> outmols,
                           energy_prop |-> energy_prop],
                          1, selectedcids, rotmatches, args.degree, cenergy,
                          field)
               IN /\ torsion_field' = field
                  /\ rdkit_sdf' = r.written
                  /\ outmols' = r.outmols
                  /\ energy_prop' = r.energy_prop
                  /\ dup_data' = Put(dup_data, "RDKIT-Rotated-conformers",
                                     r.total)
          /\ status' = 1
          /\ stages' = Append(stages, "enumerate")
          /\ pc' = "search_tail"
          /\ UNCHANGED <<log, exit_status>>
  /\ UNCHANGED <<args, mol, searchVars, cenergy, embedded, filterVars,
                 rotated_sdf, mm>>
  /\ UNCHANGED <<batch, com>>

\* What filter_after_rotation reports to the row (line 1835): the number
\* of conformers it kept.  Its two duplicate counts go to the log only.
rotation_row_reports_duplicates(row, r) ==
  Put(Put(Put(row, "RDKIT-Rotated-Unique-conformers", Len(r.sel)),
          "RDKit-energy-duplicates", r.rd_dup_energy),
      "RDKit-RMSD-and-energy-duplicates", r.rd_dup_rms_eng)

rotation_row(row, r) ==
  Put(row, "RDKIT-Rotated-Unique-conformers", Len(r.sel))

\* One more turn of the while loop of the innermost level of genConformer_r
\* (lines 1522-1540) when deg < 360 stays true: the dihedral is set to the
\* next angle.  deg itself is kept modulo 360, as the dihedral is; the
\* records the turn writes are left out.
GenConformer_Spin ==
  /\ pc = "genConformer_r"
  /\ angle_loop_endless(args, rotmatches, selectedcids)
  /\ LET conf == selectedcids[1]
         deg == outmols[conf][conf].tors[rotmatches]
     IN outmols' = [outmols EXCEPT
          ![conf][conf] = SetDihedral(@, rotmatches, deg + args.degree)]
  /\ UNCHANGED <<args, mol, pc, status, searchVars, cenergy, embedded,
                 energy_prop, filterVars, fileVars, stages, dup_data, log,
                 exit_status, mm, batch, com>>

\* summ_search, lines 1886-1895, with filter_after_rotation (1772-1839).
SummSearch_FilterAfterRotation ==
  /\ pc = "search_tail"
  /\ status # -1 /\ ~args.nodihedrals /\ rotmatches # 0
  /\ LET r == filter_after_rotation(rdkit_sdf, args)
     IN /\ rotated_sdf' = r.written
        /\ dup_data' = rotation_row(dup_data, r)
  /\ status' = 1
  /\ stages' = Append(stages, "filter_after_rotation")
  /\ pc' = "refine"
  /\ UNCHANGED <<args, mol, searchVars, minVars, filterVars, torsion_field,
                 rdkit_sdf, log, exit_status, mm>>
  /\ UNCHANGED <<batch, com>>

SummSearch_Return ==
  /\ pc = "search_tail"
  /\ ~(status # -1 /\ ~args.nodihedrals /\ rotmatches # 0)
  /\ status' = IF status # -1 /\ ~args.nodihedrals /\ rotmatches = 0
               THEN 0 ELSE status
  /\ pc' = "refine"
  /\ UNCHANGED <<args, mol, searchVars, minVars, filterVars, fileVars,
                 stages, dup_data, log, exit_status, mm>>
  /\ UNCHANGED <<batch, com>>

\* conformer_generation, lines 477-497: the refinement programs in the
\* order they are run, and the ensemble each one reads.
programs(a) == (IF a.ANI1ccx THEN <<"ani">> ELSE <<>>)
               \o (IF a.xtb THEN <<"xtb">> ELSE <<>>)

refine_input_rotated_whenever_scanned(a, gen) ==
  IF a.nodihedrals THEN "rdkit" ELSE "rotated"

refine_input(a, gen) ==
  IF a.nodihedrals THEN "rdkit" ELSE IF gen # 0 THEN "rotated" ELSE "rdkit"

pending(a, done) ==
  SelectSeq(programs(a), LAMBDA p : ~InSeq("mult_min " \o p, done))

\* mult_min, lines 2021-2031: the supplier is opened on the input ensemble.
MultMin_Open ==
  /\ pc = "refine"
  /\ status # -1
  /\ pending(args, stages) # <<>>
  /\ LET program == Head(pending(args, stages))
         source == refine_input(args, status)
     IN /\ mm' = [mm EXCEPT !.program = program,
                            !.input = IF source = "rotated" THEN rotated_sdf
                                      ELSE rdkit_sdf,
                            !.i = 1,
                            !.ran_out = FALSE,
                            !.acc = mult_min_start]
        /\ stages' = Append(stages, "mult_min " \o program)
        /\ log' = IF ~args.nodihedrals /\ status = 0
                  THEN Append(log, "x   No rotable dihydrals found")
                  ELSE log
  /\ pc' = "mult_min"
  /\ UNCHANGED <<args, mol, status, searchVars, minVars, filterVars, fileVars,
                 dup_data, exit_status>>
  /\ UNCHANGED <<batch, com>>

\* optimize (lines 1898-1996) on conformer mm.i and the rest of the loop
\* body of mult_min.  converged is assigned (0) only when the trajectory is
\* shorter than opt_steps + 1; line 1990 reads it either way.
MultMin_Optimize ==
  /\ pc = "mult_min"
  /\ mm.i <= Len(mm.input)
  /\ dup_data' = Put(dup_data, "Overall charge", mol.charge)
  /\ \E ran_out \in mol.sqm_ran_out :
       IF ran_out
       THEN /\ pc' = "error"
            /\ exit_status' = <<1>>
            /\ mm' = [mm EXCEPT !.ran_out = TRUE]
            /\ UNCHANGED log
       ELSE /\ \E res \in mol.sqm :
                 mm' = [mm EXCEPT
                   !.ran_out = FALSE,
                   !.acc = mult_min_step(@, 0, res.energy,
                             [mm.input[mm.i].geom EXCEPT !.core = res.core],
                             args),
                   !.i = @ + 1]
            /\ UNCHANGED <<pc, exit_status, log>>
  /\ UNCHANGED <<args, mol, status, searchVars, minVars, filterVars, fileVars,
                 stages>>
  /\ UNCHANGED <<batch, com>>

\* mult_min, lines 2073-2105: the counters and the refined ensemble.
MultMin_Close ==
  /\ pc = "mult_min"
  /\ mm.i > Len(mm.input)
  /\ LET prefix == IF mm.program = "xtb" THEN "xTB" ELSE "ANI1ccx"
     IN dup_data' = Put(Put(Put(Put(dup_data,
          prefix \o "-Initial-samples", Len(mm.input)),
          prefix \o "-initial_energy_threshold", mm.acc.n_dup_energy),
          prefix \o "-RMSD-and-energy-duplicates", mm.acc.n_dup_rms_eng),
          prefix \o "-Unique-conformers", Len(mm.acc.c_energy))
  /\ mm' = [mm EXCEPT !.written = write_confs(mm.acc)]
  /\ log' = IF mm.acc.outmols = <<>> THEN Append(log, "x  No conformers found!")
            ELSE log
  /\ pc' = "refine"
  /\ UNCHANGED <<args, mol, status, searchVars, minVars, filterVars, fileVars,
                 stages, exit_status>>
  /\ UNCHANGED <<batch, com>>

\* conformer_generation: nothing (more) to refine.
ConfGen_Refined ==
  /\ pc = "refine"
  /\ status = -1 \/ pending(args, stages) = <<>>
  /\ pc' = "cleanup"
  /\ UNCHANGED <<args, mol, status, searchVars, minVars, filterVars, fileVars,
                 stages, dup_data, log, exit_status, mm>>
  /\ UNCHANGED <<batch, com>>

\* conformer_generation, lines 503-511: temporary files and the time cell.
ConfGen_Cleanup ==
  /\ pc = "cleanup"
  /\ dup_data' = IF args.time THEN Put(dup_data, "time (seconds)", 0)
                 ELSE dup_data
  /\ pc' = "done"
  /\ UNCHANGED <<args, mol, status, searchVars, minVars, filterVars, fileVars,
                 stages, log, exit_status, mm>>
  /\ UNCHANGED <<batch, com>>

\* ------------------------------------------------------- initial states
\* A conformer of the molecule's force-field landscape: the core it is
\* embedded with (raw), the core and dihedral minimisation leaves, the
\* energy there.
Landscape ==
  [raw : {0, MaxCore}, core : Cores, tors : TorsVals, energy : Energies]

Pentane ==
  {[raw |-> MaxCore, core |-> 0, tors |-> 180, energy |-> 0],
   [raw |-> 0, core |-> MaxCore, tors |-> 60, energy |-> 1]}

DefaultArgs ==
  [sample_auto |-> FALSE, sample |-> 2, auto_sample |-> 1,
   metal_complex |-> FALSE, metal_idx |-> <<>>,
   max_torsions |-> 1, nodihedrals |-> TRUE, degree |-> 120, ff |-> "MMFF",
   initial_energy_threshold |-> 1, energy_threshold |-> 2,
   rms_threshold |-> 1, ewin |-> 2, ANI1ccx |-> FALSE, xtb |-> FALSE,
   max_MolWt |-> 2, time |-> TRUE]

DefaultMol ==
  [name |-> "pentane", NumRotatableBonds |-> 1, NHOHCount |-> 0,
   NumSaturatedRings |-> 0, dihedrals |-> 1, heavy_atom |-> FALSE,
   template |-> FALSE, MolWt |-> 1, atoms_possible |-> TRUE, charge |-> 0,
   landscape |-> Pentane, torsion_fields |-> {<<1, 0, 1>>},
   sqm |-> {[energy |-> 0, core |-> 0]}, sqm_ran_out |-> {FALSE}]

\* Molecules and configurations of a batch: each family varies the options
\* one stage reads and keeps the others at their defaults.
AdmissionRuns ==
  {<<[DefaultArgs EXCEPT !.max_torsions = mt, !.nodihedrals = nd,
                         !.xtb = x, !.degree = dg],
     [DefaultMol EXCEPT !.dihedrals = d]>> :
     mt \in 0..MaxDihedrals, nd \in BOOLEAN, x \in BOOLEAN,
     dg \in {120, 180, 200}, d \in 0..MaxDihedrals}

EmbeddingRuns ==
  {<<[DefaultArgs EXCEPT !.sample = n, !.ff = f],
     [DefaultMol EXCEPT !.template = t, !.heavy_atom = h]>> :
     n \in 1..(MaxConfs + 1), f \in ForceFields, t \in BOOLEAN,
     h \in BOOLEAN}

FilterRuns ==
  {<<[DefaultArgs EXCEPT !.initial_energy_threshold = it,
                         !.energy_threshold = et, !.rms_threshold = rt,
                         !.nodihedrals = nd],
     [DefaultMol EXCEPT !.landscape = Landscape]>> :
     it \in 1..2, et \in {2}, rt \in 1..2, nd \in BOOLEAN}

RefinementRuns ==
  {<<[DefaultArgs EXCEPT !.xtb = x, !.ANI1ccx = an, !.nodihedrals = nd],
     [DefaultMol EXCEPT !.dihedrals = d,
                        !.sqm = [energy : Energies, core : {0}],
                        !.sqm_ran_out = BOOLEAN]>> :
     x \in BOOLEAN, an \in BOOLEAN, nd \in BOOLEAN, d \in 0..1}

ValidityRuns ==
  {<<[DefaultArgs EXCEPT !.max_MolWt = mw], [DefaultMol EXCEPT
                                               !.atoms_possible = ok]>> :
     mw \in 1..2, ok \in BOOLEAN}

Runs == AdmissionRuns \cup EmbeddingRuns \cup FilterRuns
        \cup RefinementRuns \cup ValidityRuns

\* No batch under way: the single-molecule runs.
NoBatch == [workers |-> 0]

\* No Gaussian input under way.
NoCom == [at |-> "none"]

InitRest ==
  /\ status = 2
  /\ initial_confs = 0 /\ rotmatches = 0 /\ embed_calls = <<>> /\ cids = 0
  /\ cenergy = <<>> /\ embedded = <<>> /\ outmols = <<>> /\ energy_prop = <<>>
  /\ selectedcids_initial = <<>> /\ selectedcids = <<>>
  /\ eng_dup = -1 /\ eng_rms_dup = -1
  /\ torsion_field = <<0, 0, 0>> /\ rdkit_sdf = <<>> /\ rotated_sdf = <<>>
  /\ stages = <<>>
  /\ dup_data = EmptyRow
  /\ log = <<>>
  /\ exit_status = <<>>
  /\ mm = Idle
  /\ batch = NoBatch
  /\ com = NoCom

Init ==
  /\ \E run \in Runs : args = run[1] /\ mol = run[2]
  /\ pc = "filters"
  /\ InitRest

Next ==
  \/ Filters
  \/ SummSearch_Sample
  \/ SummSearch_Admit
  \/ SummSearch_Embed
  \/ MinAfterEmbed_Minimize
  \/ MinAfterEmbed_Filter
  \/ MinAfterEmbed_Enumerate
  \/ SummSearch_FilterAfterRotation
  \/ SummSearch_Return
  \/ MultMin_Open
  \/ MultMin_Optimize
  \/ MultMin_Close
  \/ ConfGen_Refined
  \/ ConfGen_Cleanup

Spec == Init /\ [][Next]_vars

\* Runs that are left to go on for ever: every step the program can take
\* is taken in the end.  The step of the enumerator is not restricted.
DegreeRuns ==
  {<<[DefaultArgs EXCEPT !.degree = dg, !.nodihedrals = nd, !.xtb = x,
                         !.sample = 1],
     [DefaultMol EXCEPT !.dihedrals = d, !.sqm_ran_out = BOOLEAN]>> :
     dg \in {-120, 0, 120}, nd \in BOOLEAN, x \in BOOLEAN, d \in 0..1}

InitLive ==
  /\ \E run \in DegreeRuns : args = run[1] /\ mol = run[2]
  /\ pc = "filters"
  /\ InitRest

NextLive == Next \/ GenConformer_Spin

SpecLive == InitLive /\ [][NextLive]_vars /\ WF_vars(NextLive)

\* The sampler on its own: every descriptor count, multiplier and number of
\* metal centres within the bounds, sample = 'auto'.
RECURSIVE Indices(_)
Indices(n) == IF n = 0 THEN <<>> ELSE Append(Indices(n - 1), n)

SamplerRuns ==
  {<<[DefaultArgs EXCEPT !.sample_auto = TRUE, !.auto_sample = mf,
                         !.metal_complex = mc, !.metal_idx = Indices(nm)],
     [DefaultMol EXCEPT !.NumRotatableBonds = r, !.NHOHCount = h,
                        !.NumSaturatedRings = sr]>> :
     mf \in 1..MaxMult, mc \in BOOLEAN, nm \in 0..2,
     r \in 0..MaxDescriptor, h \in 0..MaxDescriptor,
     sr \in 0..MaxDescriptor}

InitSampler ==
  /\ \E run \in SamplerRuns : args = run[1] /\ mol = run[2]
  /\ pc = "summ_search"
  /\ InitRest

NextSampler == SummSearch_Sample

SpecSampler == InitSampler /\ [][NextSampler]_vars

\* ------------------------------------------------------------ the batch
\* Molecules of one input file, each taken through clean_args,
\* compute_confs, summ_search and min_after_embed with the one args object
\* the program has.  A molecule is [heavy, metal]: it has an atom beyond Kr,
\* it has an atom of args.metal.  With one worker a molecule starts when
\* no other is under way; with two, the molecules interleave.
pipelineVarsNoCom ==
  <<args, mol, pc, status, initial_confs, rotmatches, embed_calls, cids,
    cenergy, embedded, outmols, energy_prop, selectedcids_initial,
    selectedcids, eng_dup, eng_rms_dup, torsion_field, rdkit_sdf,
    rotated_sdf, stages, dup_data, log, exit_status, mm>>

pipelineVars == <<pipelineVarsNoCom, com>>

Molecules == 1..BatchSize

Busy(m) == batch.at[m] \notin {"queued", "done"}

\* clean_args (lines 133-144), called for the molecule that starts.
Batch_CleanArgs(m) ==
  /\ batch.at[m] = "queued"
  /\ batch.workers = 1 => \A o \in Molecules : ~Busy(o)
  /\ batch' = [batch EXCEPT !.metal_complex = batch.mols[m].metal,
                            !.ff = batch.ori_ff,
                            !.metal_idx = <<>>,
                            !.at[m] = "compute_confs"]
  /\ UNCHANGED pipelineVars

\* compute_confs (lines 146-180): substituted_mol appends the metal atoms
\* of the molecule to args.metal_idx when args.metal_complex is set.
Batch_ComputeConfs(m) ==
  /\ batch.at[m] = "compute_confs"
  /\ batch' = [batch EXCEPT
       !.metal_idx = IF batch.metal_complex /\ batch.mols[m].metal
                     THEN Append(@, m) ELSE @,
       !.at[m] = "summ_search"]
  /\ UNCHANGED pipelineVars

\* summ_search (lines 1849-1873): auto_sampling reads args.metal_complex
\* and args.metal_idx; args.ff is set to UFF for an atom beyond Kr.
Batch_SummSearch(m) ==
  /\ batch.at[m] = "summ_search"
  /\ batch' = [batch EXCEPT
       !.metals_read[m] = <<IF batch.metal_complex
                            THEN Len(batch.metal_idx) ELSE 0>>,
       !.ff = IF batch.mols[m].heavy THEN "UFF" ELSE @,
       !.at[m] = "min_after_embed"]
  /\ UNCHANGED pipelineVars

\* min_after_embed (lines 1614-1640): the force field is read from args.
Batch_MinAfterEmbed(m) ==
  /\ batch.at[m] = "min_after_embed"
  /\ batch' = [batch EXCEPT !.ff_used[m] = <<batch.ff>>,
                            !.at[m] = "done"]
  /\ UNCHANGED pipelineVars

InitBatch ==
  /\ \E w \in {1, 2}, f \in ForceFields,
        ms \in [Molecules -> [heavy : BOOLEAN, metal : BOOLEAN]] :
       batch = [workers |-> w, ori_ff |-> f, mols |-> ms,
                at |-> [m \in Molecules |-> "queued"],
                ff |-> f, metal_complex |-> FALSE, metal_idx |-> <<>>,
                metals_read |-> [m \in Molecules |-> <<>>],
                ff_used |-> [m \in Molecules |-> <<>>]]
  /\ args = DefaultArgs /\ mol = DefaultMol
  /\ pc = "done"
  /\ status = 2
  /\ initial_confs = 0 /\ rotmatches = 0 /\ embed_calls = <<>> /\ cids = 0
  /\ cenergy = <<>> /\ embedded = <<>> /\ outmols = <<>> /\ energy_prop = <<>>
  /\ selectedcids_initial = <<>> /\ selectedcids = <<>>
  /\ eng_dup = -1 /\ eng_rms_dup = -1
  /\ torsion_field = <<0, 0, 0>> /\ rdkit_sdf = <<>> /\ rotated_sdf = <<>>
  /\ stages = <<>>
  /\ dup_data = EmptyRow
  /\ log = <<>>
  /\ exit_status = <<>>
  /\ mm = Idle
  /\ com = NoCom

NextBatch ==
  \E m \in Molecules :
    \/ Batch_CleanArgs(m)
    \/ Batch_ComputeConfs(m)
    \/ Batch_SummSearch(m)
    \/ Batch_MinAfterEmbed(m)

SpecBatch == InitBatch /\ [][NextBatch]_vars

\* -------------------------------------------------- the Gaussian input
\* write_gaussian_input_file: the basis-set tail appended to a .com file.
\* com.read_lines holds the element that starts each coordinate line, in
\* file order; a written line is the sequence of its blank-separated
\* words.  args.genecp_atoms and args.gen_atoms are lists that are only
\* tested for membership and for emptiness, and are sets here.  bs_gcp is
\* <<"name">> for the name of a basis set, <<"file", lines>> for a .txt or
\* .yaml file with these lines, <<"dotted">> for a name with a dot in it
\* that is neither.
MaxAtoms == 3
Elements == {"C", "H", "Pd", "I"}
Listable == {"Pd", "I"}
bs == "def2svp"
BasisFiles == {<<>>,
               << <<"Pd", "0">>, <<"lanl2dz">>, <<"****">> >>}
BsGcp == {<<"name">>, <<"dotted">>} \cup {<<"file", f>> : f \in BasisFiles}

\* All sequences over S of length 1..n.
RECURSIVE SeqsUpTo(_, _)
SeqsUpTo(S, n) ==
  IF n = 0 THEN {}
  ELSE LET shorter == SeqsUpTo(S, n - 1)
       IN {<<e>> : e \in S} \cup shorter
          \cup {Append(q, e) : q \in shorter, e \in S}

\* Lines 787-793: the first atom of the molecule that is in either list
\* decides; genecp_atoms is looked at first.
RECURSIVE genecp_of(_, _, _)
genecp_of(atoms, genecp_atoms, gen_atoms) ==
  IF atoms = <<>> THEN "None"
  ELSE IF Head(atoms) \in genecp_atoms THEN "genecp"
  ELSE IF Head(atoms) \in gen_atoms THEN "gen"
  ELSE genecp_of(Tail(atoms), genecp_atoms, gen_atoms)

\* Lines 856-858: the distinct elements in file order.
RECURSIVE ecp_list_of(_, _)
ecp_list_of(read_lines, ecp_list) ==
  IF read_lines = <<>> THEN ecp_list
  ELSE ecp_list_of(Tail(read_lines),
                   IF InSeq(Head(read_lines), ecp_list) THEN ecp_list
                   ELSE Append(ecp_list, Head(read_lines)))

\* The elements of ecp_list that are in S, in order, and '0' after them.
header_line(ecp_list, S) ==
  Append(SelectSeq(ecp_list, LAMBDA e : e \in S), "0")

\* Line 869: "not in (args.genecp_atoms or args.gen_atoms)"; the "or" of
\* two lists is the first list unless it is empty.
excluded(genecp_atoms, gen_atoms) ==
  IF genecp_atoms # {} THEN genecp_atoms ELSE gen_atoms

\* Lines 868-873.
basis_section(ecp_list, genecp_atoms, gen_atoms) ==
  << header_line(ecp_list, Elements \ excluded(genecp_atoms, gen_atoms)),
     <<bs>>, <<"****">> >>

\* Lines 874-901.
ecp_section(ecp_list, genecp_atoms, gen_atoms, ecp_genecp_atoms, ecp_gen_atoms, bs_gcp) ==
  IF ~ecp_genecp_atoms /\ ~ecp_gen_atoms THEN << <<>> >>
  ELSE IF bs_gcp[1] = "file" THEN bs_gcp[2] \o << <<>>, <<>> >>
  ELSE IF bs_gcp[1] = "dotted" THEN <<>>
  ELSE << header_line(ecp_list, genecp_atoms \cup gen_atoms),
          <<"bs_gcp">>, <<"****">>, <<>> >>
       \o (IF ecp_genecp_atoms
           THEN << header_line(ecp_list, genecp_atoms), <<"bs_gcp">>, <<>> >>
           ELSE <<>>)

\* Lines 781-793: genecp is decided from the first conformer of the sdf.
Gaussian_Genecp ==
  /\ com.at = "genecp"
  /\ com' = [com EXCEPT
       !.genecp = genecp_of(com.read_lines, com.genecp_atoms, com.gen_atoms),
       !.at = "scan"]
  /\ UNCHANGED pipelineVarsNoCom
  /\ UNCHANGED batch

\* Lines 827-866 and 904-922: the coordinate lines are scanned; the file
\* gets no tail when genecp is 'None', and the program exits when the
\* molecule has atoms of both lists.
Gaussian_Scan ==
  /\ com.at = "scan"
  /\ LET listed(S) == \E k \in 1..Len(com.read_lines) :
                         com.read_lines[k] \in S
     IN IF com.genecp = "None"
        THEN com' = [com EXCEPT !.at = "renamed"]
        ELSE com' = [com EXCEPT
               !.ecp_list = ecp_list_of(com.read_lines, <<>>),
               !.ecp_genecp_atoms = listed(com.genecp_atoms),
               !.ecp_gen_atoms = listed(com.gen_atoms),
               !.at = IF listed(com.genecp_atoms) /\ listed(com.gen_atoms)
                      THEN "exit" ELSE "basis"]
  /\ UNCHANGED pipelineVarsNoCom
  /\ UNCHANGED batch

\* Lines 868-873.
Gaussian_Basis ==
  /\ com.at = "basis"
  /\ com' = [com EXCEPT
       !.tail = basis_section(com.ecp_list, com.genecp_atoms, com.gen_atoms),
       !.at = "ecp"]
  /\ UNCHANGED pipelineVarsNoCom
  /\ UNCHANGED batch

\* Lines 874-925.
Gaussian_Ecp ==
  /\ com.at = "ecp"
  /\ com' = [com EXCEPT
       !.tail = @ \o ecp_section(com.ecp_list, com.genecp_atoms,
                                 com.gen_atoms, com.ecp_genecp_atoms,
                                 com.ecp_gen_atoms, com.bs_gcp),
       !.at = "renamed"]
  /\ UNCHANGED pipelineVarsNoCom
  /\ UNCHANGED batch

InitGaussian ==
  /\ \E atoms \in SeqsUpTo(Elements, MaxAtoms),
        ge \in SUBSET Listable, g \in SUBSET Listable, b \in BsGcp :
       com = [at |-> "genecp", read_lines |-> atoms, genecp_atoms |-> ge,
              gen_atoms |-> g, bs_gcp |-> b, genecp |-> "None",
              ecp_list |-> <<>>, ecp_genecp_atoms |-> FALSE,
              ecp_gen_atoms |-> FALSE, tail |-> <<>>]
  /\ batch = NoBatch
  /\ args = DefaultArgs /\ mol = DefaultMol
  /\ pc = "done"
  /\ status = 2
  /\ initial_confs = 0 /\ rotmatches = 0 /\ embed_calls = <<>> /\ cids = 0
  /\ cenergy = <<>> /\ embedded = <<>> /\ outmols = <<>> /\ energy_prop = <<>>
  /\ selectedcids_initial = <<>> /\ selectedcids = <<>>
  /\ eng_dup = -1 /\ eng_rms_dup = -1
  /\ torsion_field = <<0, 0, 0>> /\ rdkit_sdf = <<>> /\ rotated_sdf = <<>>
  /\ stages = <<>>
  /\ dup_data = EmptyRow
  /\ log = <<>>
  /\ exit_status = <<>>
  /\ mm = Idle

NextGaussian ==
  \/ Gaussian_Genecp
  \/ Gaussian_Scan
  \/ Gaussian_Basis
  \/ Gaussian_Ecp

SpecGaussian == InitGaussian /\ [][NextGaussian]_vars


\* ----------------------------------------------------- the two filters
\* min_after_embed on FilterConfs embedded conformers: every assignment of
\* an energy and a minimised geometry to each conformer, the dihedrals of
\* the run at one value, the thresholds of the pre-filter and of the RMSD
\* filter varied, with and without rotatable bonds.
FilterConfs == 3

FilterStageRuns ==
  {<<[DefaultArgs EXCEPT !.sample = FilterConfs,
                         !.initial_energy_threshold = it,
                         !.rms_threshold = rt, !.nodihedrals = nd],
     [DefaultMol EXCEPT !.landscape =
        [raw : {MaxCore}, core : {0, MaxCore}, tors : {t},
         energy : Energies]]>> :
     it \in 1..2, rt \in 1..2, nd \in BOOLEAN, t \in TorsVals}

InitFilter ==
  /\ \E run \in FilterStageRuns : args = run[1] /\ mol = run[2]
  /\ pc = "min_after_embed"
  /\ status = 2
  /\ initial_confs = FilterConfs
  /\ rotmatches = (IF args.nodihedrals THEN 0 ELSE mol.dihedrals)
  /\ embed_calls = embed_conf(FilterConfs, mol.template, FilterConfs, 0).calls
  /\ cids = FilterConfs
  /\ cenergy = <<>> /\ embedded = <<>> /\ outmols = <<>> /\ energy_prop = <<>>
  /\ selectedcids_initial = <<>> /\ selectedcids = <<>>
  /\ eng_dup = -1 /\ eng_rms_dup = -1
  /\ torsion_field = <<0, 0, 0>> /\ rdkit_sdf = <<>> /\ rotated_sdf = <<>>
  /\ stages = <<"embed">>
  /\ dup_data = Put(Put(EmptyRow, "Molecule", mol.name),
                    "RDKIT-Initial-samples", FilterConfs)
  /\ log = <<>>
  /\ exit_status = <<>>
  /\ mm = Idle
  /\ batch = NoBatch
  /\ com = NoCom

NextFilter ==
  \/ MinAfterEmbed_Minimize
  \/ MinAfterEmbed_Filter

SpecFilter == InitFilter /\ [][NextFilter]_vars

\* ===================================================== properties checked
Enumerated == InSeq("enumerate", stages)
Embedded == InSeq("embed", stages)
Filtered == InSeq("filter", stages)
PastAdmission ==
  dup_data["Molecule"] # nan /\ pc \notin {"summ_search", "admission"}
OverLimit == mol.dihedrals > args.max_torsions

\* ceil(360 / degree)
GridPoints(degree) == (360 + degree - 1) \div degree

RecordsOf(conf) == SelectSeq(rdkit_sdf, LAMBDA rec : rec.name = conf)

AnglesOf(conf, i) ==
  {RecordsOf(conf)[n].geom.tors[i] : n \in 1..Len(RecordsOf(conf))}

\* C3 -- enumerator count law.  Once the torsion enumerator has run, the
\* number of geometries written to <name>_rdkit.sdf, which is the value of
\* the RDKIT-Rotated-conformers cell, is |selected| x ceil(360/degree)^k
\* for k rotatable bonds; every selected conformer contributes
\* ceil(360/degree)^k of them; every bond takes exactly the angles
\* 0, degree, 2 degree, ... below 360; when degree divides 360 the count is
\* |selected| x (360/degree)^k; and with k = 0 every selected conformer is
\* written exactly once.
C3_EnumeratorCountLaw ==
  Enumerated =>
    LET k == rotmatches
        per_bond == GridPoints(args.degree)
        count == Len(selectedcids) * Pow(per_bond, k)
    IN /\ dup_data["RDKIT-Rotated-conformers"] = Cell(count)
       /\ Len(rdkit_sdf) = count
       /\ \A j \in 1..Len(selectedcids) :
            /\ Len(RecordsOf(selectedcids[j])) = Pow(per_bond, k)
            /\ \A i \in 1..k :
                 AnglesOf(selectedcids[j], i)
                   = {n * args.degree : n \in 0..(per_bond - 1)}
            /\ k = 0 => Len(RecordsOf(selectedcids[j])) = 1
       /\ \A n \in 1..Len(rdkit_sdf) : \A i \in 1..k :
            rdkit_sdf[n].geom.tors[i] < 360
       /\ 360 % args.degree = 0
            => count = Len(selectedcids) * Pow(360 \div args.degree, k)

\* Two selected conformers, two rotatable bonds and a step (200) that does
\* not divide 360: 2 x 2^2 records.
C3_Witness ==
  /\ Enumerated
  /\ rotmatches = 2
  /\ Len(selectedcids) = 2
  /\ args.degree = 200
  /\ Len(rdkit_sdf) = 8

\* C4 -- admission control as the code has it.  A valid molecule whose
\* rotatable-bond count exceeds max_torsions is skipped as a whole:
\* summ_search returns -1 with the reason logged, no stage of the search
\* runs, neither ensemble is produced and no refinement is made.
C4_RejectedMoleculeIsSkipped ==
  (PastAdmission /\ OverLimit) =>
    /\ status = -1
    /\ InSeq("x  Too many torsions. Skipping", log)
    /\ stages = <<>>
    /\ cids = 0
    /\ rdkit_sdf = <<>> /\ rotated_sdf = <<>>
    /\ mm = Idle
    /\ dup_data["RDKIT-Unique-conformers"] = nan
    /\ dup_data["RDKIT-Rotated-conformers"] = nan

\* A molecule with max_torsions + 1 rotatable bonds at the end of its run,
\* with a refinement program requested.
C4_Witness ==
  /\ pc = "done"
  /\ PastAdmission
  /\ mol.dihedrals = args.max_torsions + 1
  /\ args.xtb
  /\ status = -1

\* C4 as stated: a molecule over the limit is still embedded, minimised and
\* filtered, only the enumeration is skipped, its non-rotated unique
\* ensemble is produced, and the reason is logged.
C4_OnlyEnumerationSkipped ==
  (pc = "done" /\ PastAdmission /\ OverLimit) =>
    /\ Embedded
    /\ InSeq("minimize", stages)
    /\ Filtered
    /\ ~Enumerated
    /\ dup_data["RDKIT-Unique-conformers"] # nan
    /\ InSeq("x  Too many torsions. Skipping", log)

\* C5 -- the max_torsions test comes before any embedding call.  For a
\* molecule over the limit no engine call is ever made and no stage ever
\* starts, in any state of the run, and the four counters of its row stay
\* unset; for any molecule, an embedding call implies the test was passed.
C5_AdmissionBeforeEmbedding ==
  /\ OverLimit =>
       /\ embed_calls = <<>>
       /\ stages = <<>>
       /\ mm.program = "none"
       /\ dup_data["RDKIT-Initial-samples"] = nan
       /\ dup_data["RDKit-energy-duplicates"] = nan
       /\ dup_data["RDKit-RMSD-and-energy-duplicates"] = nan
       /\ dup_data["RDKIT-Unique-conformers"] = nan
  /\ (embed_calls # <<>> \/ pc = "embed") =>
       /\ ~OverLimit
       /\ dup_data["RDKIT-Initial-samples"] = Cell(initial_confs)

\* A rejected molecule at the end of its run: only the name and the time
\* were written to its row.
C5_Witness ==
  /\ pc = "done"
  /\ OverLimit
  /\ status = -1
  /\ dup_data["Molecule"] = Cell(mol.name)
  /\ dup_data["time (seconds)"] # nan
  /\ args.nodihedrals

\* C7 -- the sampler.  The value summ_search takes from auto_sampling is
\* multiplier x raw, raw = 3 x rotatable bonds + 3 x NH/OH + 3 x saturated
\* rings, or the multiplier itself when raw = 0, the multiplier being
\* scaled by 3 x m first for a metal complex with m >= 1 metal centres;
\* and the call leaves args (auto_sample and metal_idx included), the
\* molecule and everything but the row's name as they were.
SamplerValue ==
  LET raw == 3 * mol.NumRotatableBonds + 3 * mol.NHOHCount
             + 3 * mol.NumSaturatedRings
      m == Len(args.metal_idx)
      multiplier == IF args.metal_complex /\ m >= 1
                    THEN args.auto_sample * 3 * m ELSE args.auto_sample
  IN IF raw = 0 THEN multiplier ELSE multiplier * raw

C7_Sampler ==
  [][(pc = "summ_search" /\ args.sample_auto) =>
       /\ initial_confs' = SamplerValue
       /\ UNCHANGED <<args, mol, status, rotmatches, embed_calls, cids,
                      minVars, filterVars, fileVars, stages, log,
                      exit_status, mm>>]_vars

\* A complex of two metal centres with one rotatable bond and one
\* saturated ring: multiplier 2 x 3 x 2, raw 6.
C7_Witness ==
  /\ pc = "admission"
  /\ args.sample_auto /\ args.metal_complex
  /\ Len(args.metal_idx) = 2
  /\ args.auto_sample = 2
  /\ mol.NumRotatableBonds = 1 /\ mol.NHOHCount = 0
  /\ mol.NumSaturatedRings = 1
  /\ initial_confs = 72

\* C8 -- the embedding adapter.  The first engine call uses the standard
\* settings; there is a second call, with random coordinates, exactly when
\* the first yielded no id, or one id while more than one was asked for;
\* there are never more than two calls; both calls ask for n conformers
\* and carry the anchor map when there is one; and the adapter returns
\* what the last call yielded, however few.
C8_EmbeddingAdapter ==
  Embedded =>
    LET first == embed_calls[1]
        last == embed_calls[Len(embed_calls)]
    IN /\ Len(embed_calls) \in {1, 2}
       /\ ~first.useRandomCoords
       /\ Len(embed_calls) = 2
            <=> (first.yield = 0 \/ (first.yield = 1 /\ initial_confs > 1))
       /\ Len(embed_calls) = 2 => embed_calls[2].useRandomCoords
       /\ \A c \in 1..Len(embed_calls) :
            /\ embed_calls[c].coordMap = mol.template
            /\ embed_calls[c].numConfs = initial_confs
       /\ cids = last.yield

\* A template molecule asked for three conformers: one id from the first
\* call, two from the retry.
C8_Witness ==
  /\ Embedded
  /\ mol.template
  /\ initial_confs = 3
  /\ Len(embed_calls) = 2
  /\ embed_calls[1].yield = 1
  /\ embed_calls[2].coordMap
  /\ cids = 2

\* A pair the duplicate filter is meant to keep apart.
Duplicates(Ea, ga, Eb, gb) ==
  /\ Abs(Ea - Eb) < args.energy_threshold
  /\ get_conf_RMS(ga, gb) < args.rms_threshold

\* The conformers min_after_embed accepted, as it hands them on: conformer
\* c of its own copy outmols[c].
AcceptedAfterEmbed ==
  [j \in 1..Len(selectedcids) |->
     [Energy |-> cenergy[selectedcids[j]],
      geom |-> outmols[selectedcids[j]][selectedcids[j]]]]

NoDuplicatePair(accepted) ==
  \A a, b \in 1..Len(accepted) :
    a # b => ~Duplicates(accepted[a].Energy, accepted[a].geom,
                         accepted[b].Energy, accepted[b].geom)

MinPassClean == pc = "enumerate" => NoDuplicatePair(AcceptedAfterEmbed)

RotationPassClean ==
  InSeq("filter_after_rotation", stages) => NoDuplicatePair(rotated_sdf)

RefinementPassClean ==
  mm.program # "none" =>
    NoDuplicatePair([j \in 1..Len(mm.acc.c_energy) |->
                       [Energy |-> mm.acc.c_energy[j],
                        geom |-> mm.acc.outmols[j]]])

\* C1 -- no duplicate pair survives a filter pass.  What min_after_embed
\* accepted, what filter_after_rotation wrote and what mult_min accepted
\* never hold two distinct conformers whose energies differ by less than
\* energy_threshold and whose RMSD is below rms_threshold.
C1_NoDuplicatePairSurvives ==
  MinPassClean /\ RotationPassClean /\ RefinementPassClean

\* min_after_embed run again on what it accepted: the accepted conformers
\* are the embedding, minimisation leaves each where it is, the energies
\* are the same.
RerunAfterEmbed ==
  LET n == Len(AcceptedAfterEmbed)
      en == [c \in 1..n |-> AcceptedAfterEmbed[c].Energy]
      om == [m \in 1..n |-> [c \in 1..n |-> AcceptedAfterEmbed[c].geom]]
      A == prefilter(sortedcids(n, en), en, args)
      B == rmsd_filter(A.sel, en, om, args)
  IN [n |-> n, kept |-> Len(B.sel), eng_dup |-> A.dup,
      eng_rms_dup |-> B.dup]

\* mult_min run again on the ensemble it wrote, every optimisation
\* converging to the energy and geometry it is given.
RECURSIVE rerun_mult_min(_, _, _)
rerun_mult_min(acc, i, file) ==
  IF i > Len(file) THEN acc
  ELSE rerun_mult_min(mult_min_step(acc, 0, file[i].Energy, file[i].geom,
                                    args), i + 1, file)

MinPassIdempotent ==
  pc = "enumerate" =>
    /\ RerunAfterEmbed.kept = RerunAfterEmbed.n
    /\ RerunAfterEmbed.eng_dup <= 0
    /\ RerunAfterEmbed.eng_rms_dup <= 0

RotationPassIdempotent ==
  InSeq("filter_after_rotation", stages) =>
    LET again == filter_after_rotation(rotated_sdf, args)
    IN /\ again.written = rotated_sdf
       /\ again.rd_dup_energy <= 0
       /\ again.rd_dup_rms_eng = 0

RefinementPassIdempotent ==
  (pc = "refine" /\ mm.program # "none") =>
    LET again == rerun_mult_min(mult_min_start, 1, mm.written)
    IN /\ write_confs(again) = mm.written
       /\ again.n_high = 0
       /\ again.n_dup_energy = 0
       /\ again.n_dup_rms_eng = 0

\* C2 -- idempotence.  Each filter pass, given its own accepted output
\* again with the same thresholds, energies and RMSDs, accepts all of it:
\* nothing is removed, rejected or counted as a duplicate.
C2_FilterPassIdempotent ==
  MinPassIdempotent /\ RotationPassIdempotent /\ RefinementPassIdempotent

\* C6 -- counter conservation.  After Stage A and Stage B the number of
\* embedded conformers is the prefilter-duplicate count plus the
\* geometry-duplicate count plus the number of unique conformers, and the
\* row of the molecule carries these three counts.
C6_CounterConservation ==
  Filtered =>
    /\ cids = eng_dup + eng_rms_dup + Len(selectedcids)
    /\ dup_data["RDKit-energy-duplicates"] = Cell(eng_dup)
    /\ dup_data["RDKit-RMSD-and-energy-duplicates"] = Cell(eng_rms_dup)
    /\ dup_data["RDKIT-Unique-conformers"] = Cell(Len(selectedcids))

\* C9 -- zero conformers after the retry.  The molecule is then skipped:
\* no filter, enumeration or refinement stage runs for it, its duplicate
\* and unique counters stay unset, and the run is not aborted.
C9_ZeroEmbeddingSkipsMolecule ==
  (Embedded /\ cids = 0) =>
    /\ ~Filtered
    /\ ~Enumerated
    /\ mm.program = "none"
    /\ dup_data["RDKit-energy-duplicates"] = nan
    /\ dup_data["RDKit-RMSD-and-energy-duplicates"] = nan
    /\ dup_data["RDKIT-Unique-conformers"] = nan
    /\ dup_data["RDKIT-Rotated-conformers"] = nan
    /\ exit_status = <<>>

\* C10 -- non-convergence is a soft rejection.  When the optimiser ran out
\* of steps on a conformer of the refinement pass, no error is raised, the
\* conformer is counted as rejected and not accepted, and the pass goes on.
C10_NonConvergenceIsSoftRejection ==
  mm.ran_out =>
    /\ pc # "error"
    /\ exit_status = <<>>
    /\ mm.acc.n_high >= 1
    /\ pc \in {"mult_min", "refine", "cleanup", "done"}

\* The force field the stages of min_after_embed are run with.
Unsupported == args.ff \notin {"MMFF", "UFF"}

\* C11 -- an unsupported force field is fatal with a failure status.  Once
\* the minimiser has been entered with conformers to minimise and a
\* force-field family that is neither MMFF nor UFF, the process is aborted
\* and its exit status is not zero; the run never goes on to the filters.
C11_UnsupportedForceFieldAborts ==
  /\ (Unsupported /\ cids > 0
        /\ pc \notin {"filters", "summ_search", "admission", "embed",
                      "min_after_embed"})
       => pc = "exit"
  /\ pc = "exit" => (exit_status # <<>> /\ exit_status # <<0>>)

\* The counters of the row and the stages they belong to (the name of the
\* molecule, its charge and the time are not counters).
ProgramCounters(prefix) ==
  {prefix \o "-Initial-samples", prefix \o "-initial_energy_threshold",
   prefix \o "-RMSD-and-energy-duplicates", prefix \o "-Unique-conformers"}

MinimizationCounters ==
  {"RDKIT-Initial-samples", "RDKit-energy-duplicates",
   "RDKit-RMSD-and-energy-duplicates", "RDKIT-Unique-conformers"}

Counters ==
  MinimizationCounters
    \cup {"RDKIT-Rotated-conformers", "RDKIT-Rotated-Unique-conformers"}
    \cup ProgramCounters("xTB") \cup ProgramCounters("ANI1ccx")

\* The counters of the stages that apply to the molecule under the
\* options of the run; none for a molecule that is skipped.
ApplicableCounters ==
  IF ~valid_structure(mol, args) \/ OverLimit THEN {}
  ELSE MinimizationCounters
       \cup (IF args.nodihedrals THEN {} ELSE {"RDKIT-Rotated-conformers"})
       \cup (IF ~args.nodihedrals /\ mol.dihedrals > 0
             THEN {"RDKIT-Rotated-Unique-conformers"} ELSE {})
       \cup (IF args.xtb THEN ProgramCounters("xTB") ELSE {})
       \cup (IF args.ANI1ccx THEN ProgramCounters("ANI1ccx") ELSE {})

Written == {col \in Counters : dup_data[col] # nan}

RowWhole == Written = {} \/ ApplicableCounters \subseteq Written

\* C12 -- no partial summary rows.  In every state of the run, the states
\* in which the run has stopped on a fatal abort or an exception included,
\* the row of the molecule carries either no counter at all or the
\* counters of every stage that applies to the molecule.
C12_NoPartialRow == RowWhole

Rotated == InSeq("filter_after_rotation", stages)

\* The two duplicate counts filter_after_rotation ends with.
RotationDuplicates ==
  LET r == filter_after_rotation(rdkit_sdf, args)
  IN [energy |-> r.rd_dup_energy, geometry |-> r.rd_dup_rms_eng]

ProgramPrefix == IF mm.program = "xtb" THEN "xTB" ELSE "ANI1ccx"

\* C13 -- what each filter pass reports, as the code has it.
\* min_after_embed writes its prefilter-duplicate, geometry-duplicate and
\* unique counts to the row; mult_min, when it finishes, writes the three
\* (and the size of its input) under the prefix of its program;
\* filter_after_rotation writes one cell only, the number of conformers it
\* kept, and leaves every other cell of the row as it was.
C13_FilterPassReports ==
  /\ [](Filtered =>
          /\ dup_data["RDKit-energy-duplicates"] = Cell(eng_dup)
          /\ dup_data["RDKit-RMSD-and-energy-duplicates"] = Cell(eng_rms_dup)
          /\ dup_data["RDKIT-Unique-conformers"] = Cell(Len(selectedcids)))
  /\ [][(pc = "mult_min" /\ pc' = "refine") =>
          /\ dup_data'[ProgramPrefix \o "-initial_energy_threshold"]
               = Cell(mm.acc.n_dup_energy)
          /\ dup_data'[ProgramPrefix \o "-RMSD-and-energy-duplicates"]
               = Cell(mm.acc.n_dup_rms_eng)
          /\ dup_data'[ProgramPrefix \o "-Unique-conformers"]
               = Cell(Len(mm.acc.outmols))]_vars
  /\ [][(pc = "search_tail" /\ Rotated') =>
          /\ dup_data'["RDKIT-Rotated-Unique-conformers"]
               = Cell(Len(rotated_sdf'))
          /\ \A col \in Columns \ {"RDKIT-Rotated-Unique-conformers"} :
               dup_data'[col] = dup_data[col]]_vars

\* A finished run in which filter_after_rotation removed an energy
\* duplicate and xtb refined the rotated ensemble.
C13_Witness ==
  /\ pc = "done"
  /\ Rotated
  /\ RotationDuplicates.energy > 0
  /\ dup_data["RDKIT-Rotated-Unique-conformers"] = Cell(Len(rotated_sdf))
  /\ dup_data["xTB-Unique-conformers"] # nan

\* C13 as stated: once the post-enumeration pass has run, the row also
\* carries its energy-duplicate count and its geometry-duplicate count, in
\* two cells of their own.
C13_RotationPassReportsAllThree ==
  Rotated =>
    /\ dup_data["RDKIT-Rotated-Unique-conformers"] = Cell(Len(rotated_sdf))
    /\ \E c1, c2 \in Columns \ (MinimizationCounters
                                 \cup ProgramCounters("xTB")
                                 \cup ProgramCounters("ANI1ccx")
                                 \cup {"RDKIT-Rotated-Unique-conformers",
                                       "RDKIT-Rotated-conformers",
                                       "Molecule", "Overall charge",
                                       "time (seconds)"}) :
         /\ c1 # c2
         /\ dup_data[c1] = Cell(RotationDuplicates.energy)
         /\ dup_data[c2] = Cell(RotationDuplicates.geometry)

\* What a molecule gets when it is the only one of its batch.
AloneFF(m) == IF batch.mols[m].heavy THEN "UFF" ELSE batch.ori_ff
AloneMetals(m) == IF batch.mols[m].metal THEN 1 ELSE 0

Independent(m) ==
  /\ batch.ff_used[m] # <<>> => batch.ff_used[m] = <<AloneFF(m)>>
  /\ batch.metals_read[m] # <<>> => batch.metals_read[m] = <<AloneMetals(m)>>

\* C14 -- molecule independence.  Whatever the order or interleaving of
\* the molecules of a batch, the force field a molecule is minimised with
\* and the number of metal centres its sampler counts are those the
\* molecule would get on its own: the force-field switch and the metal
\* bookkeeping of another molecule never reach it.
C14_MoleculeIndependence == \A m \in Molecules : Independent(m)

\* The same for the batches worked through by one worker, a molecule
\* at a time.
SequentialIndependence ==
  batch.workers = 1 => \A m \in Molecules : Independent(m)

Ended == pc \in {"done", "exit", "error"}

\* C15 -- termination.  The pipeline of a molecule, once started, comes
\* to an end, by completion, by a fatal abort or by an exception, whatever
\* the configuration; the angle loop of the enumerator does not go on for
\* ever.
C15_PipelineEnds == <>Ended

\* C16 -- invalid molecules are skipped.  For a molecule whose molecular
\* weight is not below max_MolWt, or that has an atom outside
\* possible_atoms, no stage ever runs and no engine is called, every
\* counter of its row and its charge stay unset, the run is not aborted,
\* and once the test is made the error is in the log.
C16_InvalidMoleculeSkipped ==
  (mol.MolWt >= args.max_MolWt \/ ~mol.atoms_possible) =>
    /\ pc \in {"filters", "cleanup", "done"}
    /\ stages = <<>>
    /\ embed_calls = <<>>
    /\ mm.program = "none"
    /\ Written = {}
    /\ dup_data["Overall charge"] = nan
    /\ exit_status = <<>>
    /\ pc # "filters" => log = <<"ERROR: The structure is not valid">>

\* The molecule of the max_MolWt test, at the end of its run.
C16_Witness ==
  /\ pc = "done"
  /\ mol.MolWt >= args.max_MolWt
  /\ mol.atoms_possible
  /\ log = <<"ERROR: The structure is not valid">>
  /\ dup_data["RDKIT-Initial-samples"] = nan

\* ----------------------------------------------------------------- C17
\* The lines of the written tail in which element e is followed by ' 0'.
HeaderLines(e) ==
  {k \in 1..Len(com.tail) :
     \E j \in 1..(Len(com.tail[k]) - 1) :
        com.tail[k][j] = e /\ com.tail[k][j + 1] = "0"}

InMolecule(e) == InSeq(e, com.read_lines)

TailWritten == com.at = "renamed" /\ com.genecp # "None"

\* C17: in a written Gaussian input, the header "<element> 0" of an element
\* of the molecule that is listed in gen_atoms occurs exactly once, and
\* that of an element listed in genecp_atoms occurs exactly twice.
C17_BasisHeaderCounts ==
  TailWritten =>
    \A e \in Elements :
      InMolecule(e) =>
        /\ e \in com.gen_atoms => Cardinality(HeaderLines(e)) = 1
        /\ e \in com.genecp_atoms => Cardinality(HeaderLines(e)) = 2

\* ----------------------------------------------------------------- C18
\* The conformers in the order the filters take them.
EnergyOrder == sortedcids(cids, cenergy)

FarFromAll(conf, survivors, thr) ==
  \A j \in 1..Len(survivors) : Abs(cenergy[conf] - cenergy[survivors[j]]) >= thr

\* Stage A as it is described: the first conformer, then every conformer
\* that is at least initial_energy_threshold away from every survivor so
\* far.
RECURSIVE StageASurvivors(_, _)
StageASurvivors(i, survivors) ==
  IF i > Len(EnergyOrder) THEN survivors
  ELSE StageASurvivors(i + 1,
         IF i = 1 \/ FarFromAll(EnergyOrder[i], survivors,
                                args.initial_energy_threshold)
         THEN Append(survivors, EnergyOrder[i]) ELSE survivors)

\* C18: the pre-filter accepts the first conformer in energy order and
\* every later one that differs by at least initial_energy_threshold from
\* every survivor accepted before it; each of the others is counted once
\* as a pre-filter duplicate; the survivors differ pairwise by at least
\* initial_energy_threshold.
C18_StageA ==
  (Filtered /\ cids >= 1) =>
    /\ selectedcids_initial = StageASurvivors(1, <<>>)
    /\ eng_dup = cids - Len(selectedcids_initial)
    /\ \A a, b \in 1..Len(selectedcids_initial) :
         a # b => Abs(cenergy[selectedcids_initial[a]]
                      - cenergy[selectedcids_initial[b]])
                  >= args.initial_energy_threshold

\* Three conformers of energies 0, 1 and 2 with a threshold of 2: the
\* second is a pre-filter duplicate of the first, the third differs from
\* the only survivor by the threshold exactly and is accepted.
C18_Witness ==
  /\ Filtered /\ cids = 3
  /\ args.initial_energy_threshold = 2
  /\ cenergy = <<0, 1, 2>>
  /\ selectedcids_initial = <<1, 3>>
  /\ eng_dup = 1

\* ----------------------------------------------------------------- C19
\* The minimised geometry of conformer c with its dihedrals at 180: the
\* last copy of the molecule holds every conformer minimised (line 1668),
\* and the filter does no more to that copy than to set the dihedrals of
\* conformer cids to 180.
MinimisedReset(c) == ResetDihedrals(outmols[cids][c])

\* Stage B as it is described, on the minimised geometries with their
\* dihedrals at 180: the class of a candidate against the accepted set.
StageBClass(conf, accepted) ==
  IF \E j \in 1..Len(accepted) :
       Abs(cenergy[conf] - cenergy[accepted[j]])
         < args.initial_energy_threshold
  THEN "energy duplicate"
  ELSE IF \E j \in 1..Len(accepted) :
            /\ Abs(cenergy[conf] - cenergy[accepted[j]])
                 < args.energy_threshold
            /\ get_conf_RMS(MinimisedReset(accepted[j]),
                            MinimisedReset(conf))
                 < args.rms_threshold
  THEN "geometry duplicate"
  ELSE "accepted"

RECURSIVE StageB(_, _)
StageB(i, acc) ==
  IF i > Len(selectedcids_initial) THEN acc
  ELSE LET conf == selectedcids_initial[i]
           class == IF i = 1 THEN "accepted"
                    ELSE StageBClass(conf, acc.accepted)
       IN StageB(i + 1,
            [accepted |-> IF class = "accepted"
                          THEN Append(acc.accepted, conf) ELSE acc.accepted,
             energy |-> acc.energy
                        + (IF class = "energy duplicate" THEN 1 ELSE 0),
             geometry |-> acc.geometry
                          + (IF class = "geometry duplicate" THEN 1 ELSE 0)])

StageBDescribed == StageB(1, [accepted |-> <<>>, energy |-> 0, geometry |-> 0])

\* C19: the energy+RMSD filter accepts the first pre-filter survivor; a
\* later one is an energy duplicate when it is closer than
\* initial_energy_threshold to an accepted conformer, else a geometry
\* duplicate when it is closer than energy_threshold to an accepted
\* conformer and its RMSD to that conformer is below rms_threshold, and is
\* accepted otherwise.
C19_StageB ==
  (Filtered /\ cids >= 1) =>
    /\ selectedcids = StageBDescribed.accepted
    /\ eng_rms_dup = StageBDescribed.energy + StageBDescribed.geometry

\* ----------------------------------------------------------------- C20
\* The RMSD comparisons the energy+RMSD filter makes when it runs on the
\* minimised conformers.
StageBComparisons ==
  rms_calls_loop([sel |-> <<>>, dup |-> -1, outmols |-> outmols], <<>>, 1,
                 prefilter(sortedcids(cids, cenergy), cenergy, args).sel,
                 cenergy, args)

AllAt180(g) == \A i \in 1..Len(g.tors) : g.tors[i] = 180

\* C20: every RMSD comparison of the energy+RMSD filter is between two
\* geometries whose rotatable-bond dihedrals have all been set to 180
\* degrees before the comparison.
C20_BothGeometriesReset ==
  pc = "filter" =>
    \A n \in 1..Len(StageBComparisons) :
      /\ AllAt180(StageBComparisons[n].probe)
      /\ AllAt180(StageBComparisons[n].ref)

\* ----------------------------------------------------------------- C21
\* The refinement policy as it is described, for one conformer whose
\* optimisation returned (converged, energy, geom): the global minimum is
\* brought up to date, the conformer is rejected when it did not converge
\* or lies more than ewin above the minimum, and is otherwise a duplicate
\* of an accepted conformer or joins the accepted set.
DescribedStep(acc, converged, energy, geom) ==
  LET globmin == IF acc.globmin = <<>> \/ energy < acc.globmin[1]
                 THEN energy ELSE acc.globmin[1]
      rejected == converged # 0 \/ energy > globmin + args.ewin
      duplicate == \E j \in 1..Len(acc.c_energy) :
         \/ Abs(energy - acc.c_energy[j]) < args.initial_energy_threshold
         \/ /\ Abs(energy - acc.c_energy[j]) < args.energy_threshold
            /\ get_conf_RMS(geom, acc.outmols[j]) < args.rms_threshold
  IN [globmin |-> <<globmin>>,
      n_high |-> acc.n_high + (IF rejected THEN 1 ELSE 0),
      duplicates |-> acc.n_dup_energy + acc.n_dup_rms_eng
                     + (IF ~rejected /\ duplicate THEN 1 ELSE 0),
      c_energy |-> IF rejected \/ duplicate THEN acc.c_energy
                   ELSE Append(acc.c_energy, energy),
      outmols |-> IF rejected \/ duplicate THEN acc.outmols
                  ELSE Append(acc.outmols, geom)]

Outcome(acc) ==
  [globmin |-> acc.globmin, n_high |-> acc.n_high,
   duplicates |-> acc.n_dup_energy + acc.n_dup_rms_eng,
   c_energy |-> acc.c_energy, outmols |-> acc.outmols]

\* C21: mult_min takes the conformers in file order; for each it updates
\* the running global minimum, rejects the conformer as high energy exactly
\* when it did not converge or its energy exceeds the minimum by more than
\* ewin (a conformer at the minimum plus ewin is kept), and otherwise
\* counts it as a duplicate of an accepted conformer or accepts it.
C21_RefinementPolicy ==
  [][(pc = "mult_min" /\ mm'.i = mm.i + 1) =>
       \E res \in mol.sqm :
          Outcome(mm'.acc)
            = DescribedStep(mm.acc, 0, res.energy,
                [mm.input[mm.i].geom EXCEPT !.core = res.core])]_vars

\* ----------------------------------------------------------------- C22
\* The angle of bond i (1 the first) in the n-th tuple, counted from 0, of
\* the grid taken in lexicographic order: the first bond is the slowest.
LexAngle(n, i, k, degree) ==
  ((n \div Pow(GridPoints(degree), k - i)) % GridPoints(degree)) * degree

\* C22: the enumerator writes, for each selected conformer in the order of
\* the accepted set, the geometries of the grid in lexicographic order of
\* the angle tuple, the first rotatable bond varying slowest and the last
\* fastest; the records are not put in energy order.
C22_EmissionOrder ==
  Enumerated =>
    LET k == rotmatches
        per_conf == Pow(GridPoints(args.degree), k)
    IN \A p \in 1..Len(rdkit_sdf) :
         /\ rdkit_sdf[p].name = selectedcids[((p - 1) \div per_conf) + 1]
         /\ \A i \in 1..k :
              rdkit_sdf[p].geom.tors[i]
                = LexAngle((p - 1) % per_conf, i, k, args.degree)

\* Two rotatable bonds on a grid of three angles: nine records of which
\* the second differs from the first in the last bond only, and whose
\* energies go down and up again along the file.
C22_Witness ==
  /\ Enumerated
  /\ rotmatches = 2 /\ args.degree = 120
  /\ Len(rdkit_sdf) >= 9
  /\ rdkit_sdf[1].geom.tors = <<0, 0>>
  /\ rdkit_sdf[2].geom.tors = <<0, 120>>
  /\ rdkit_sdf[4].geom.tors = <<120, 0>>
  /\ rdkit_sdf[2].Energy < rdkit_sdf[1].Energy
  /\ rdkit_sdf[3].Energy > rdkit_sdf[2].Energy

\* ----------------------------------------------------------------- C23
Minimized == InSeq("minimize", stages)

\* C23: once minimisation has produced the conformers, no later stage
\* changes the geometry or the energy of any of them: the dihedral reset of
\* the energy+RMSD filter, the torsion enumerator and the refinement leave
\* the minimised conformers as they were.
C23_ConformersAreValues ==
  [][Minimized => (outmols' = outmols /\ energy_prop' = energy_prop)]_vars

\* ----------------------------------------------------------------- C24
NonDecreasing(energies) ==
  \A n \in 1..(Len(energies) - 1) : energies[n] <= energies[n + 1]

\* s is t with some of its members left out, the order kept.
RECURSIVE IsSubsequence(_, _)
IsSubsequence(s, t) ==
  IF s = <<>> THEN TRUE
  ELSE IF t = <<>> THEN FALSE
  ELSE IF Head(s) = Head(t) THEN IsSubsequence(Tail(s), Tail(t))
  ELSE IsSubsequence(s, Tail(t))

EnergiesOf(sel) == [n \in 1..Len(sel) |-> cenergy[sel[n]]]
RotatedEnergies == [n \in 1..Len(rotated_sdf) |-> rotated_sdf[n].Energy]
DihedralsOf(geoms) == [n \in 1..Len(geoms) |-> geoms[n].tors]

MinPassInEnergyOrder ==
  Filtered => /\ NonDecreasing(EnergiesOf(selectedcids_initial))
              /\ NonDecreasing(EnergiesOf(selectedcids))

\* C24 as the code has it: the two filters of the minimisation pass take
\* the conformers in non-decreasing energy order and their accepted
\* sequences are sorted by energy; the pass after the enumeration takes the
\* records in the order of the file, keeps the first record whatever its
\* energy and writes the accepted records in file order; the refinement
\* pass accepts in file order as well.
C24_PassOrder ==
  /\ MinPassInEnergyOrder
  /\ Rotated => /\ IsSubsequence(rotated_sdf, rdkit_sdf)
                /\ rdkit_sdf # <<>> => Head(rotated_sdf) = Head(rdkit_sdf)
  /\ mm.program # "none" =>
       IsSubsequence(DihedralsOf(mm.acc.outmols),
                     DihedralsOf([n \in 1..Len(mm.input) |->
                                    mm.input[n].geom]))

\* One conformer with one rotatable bond on a grid of 120 degrees: the
\* rotamers have the energies 1, 0, 1 along the file; the first is kept
\* and the second, lower in energy, after it.
C24_Witness ==
  /\ Rotated
  /\ Len(rotated_sdf) >= 2
  /\ rotated_sdf[1].Energy > rotated_sdf[2].Energy
  /\ Len(selectedcids_initial) = 2

\* C24: in the minimisation pass and in the pass after the enumeration the
\* conformers are examined in non-decreasing energy order, so the accepted
\* sequence of each pass is sorted by non-decreasing energy.
C24_AcceptedInEnergyOrder ==
  /\ MinPassInEnergyOrder
  /\ Rotated => NonDecreasing(RotatedEnergies)

\* ----------------------------------------------------------------- C25
Refining == mm.program # "none"

\* The stages of the conformer search, in the order they have to have run
\* before a refinement of the molecule.
SearchFinished ==
  /\ status \in {0, 1}
  /\ pc \notin {"filters", "summ_search", "admission", "embed",
                "min_after_embed", "filter", "enumerate", "genConformer_r",
                "search_tail"}
  /\ Embedded /\ Minimized /\ Filtered /\ Enumerated
  /\ (~args.nodihedrals /\ rotmatches # 0) => Rotated

ScanWithRotatableBonds == ~args.nodihedrals /\ mol.dihedrals >= 1

\* C25: a refinement of a molecule starts only when its conformer search
\* has finished (embedding, minimisation, filtering, enumeration and, with
\* rotatable bonds to scan, the filter after it) and the ensemble files are
\* no longer written; a molecule whose search was skipped is never
\* refined; the refinement reads the rotated ensemble exactly when the
\* dihedral scan is enabled and the molecule has a rotatable bond, and the
\* non-rotated ensemble otherwise.
C25_StageSequencing ==
  /\ [](Refining =>
          /\ SearchFinished
          /\ mm.input = IF ScanWithRotatableBonds THEN rotated_sdf
                        ELSE rdkit_sdf)
  /\ []((status = -1 \/ ~valid_structure(mol, args)) => ~Refining)
  /\ [][Refining' => UNCHANGED <<rdkit_sdf, rotated_sdf>>]_vars

\* A refinement under way on the rotated ensemble, which is shorter than
\* the ensemble the enumerator wrote.
C25_Witness ==
  /\ Refining /\ pc = "mult_min"
  /\ ScanWithRotatableBonds
  /\ mm.input = rotated_sdf
  /\ Len(rotated_sdf) >= 1
  /\ Len(rotated_sdf) < Len(rdkit_sdf)

\* ----------------------------------------------------------------- C26
\* The simpler pre-filter: the loop of lines 1683-1699 with the conformer
\* compared with the survivor accepted last, and with no other.
RECURSIVE LastSurvivorRule(_, _, _)
LastSurvivorRule(acc, i, thr) ==
  IF i > Len(EnergyOrder) THEN acc
  ELSE LET conf == EnergyOrder[i]
           sel0 == IF i = 1 THEN Append(acc.sel, conf) ELSE acc.sel
           last == sel0[Len(sel0)]
           close == Abs(cenergy[conf] - cenergy[last]) < thr
       IN LastSurvivorRule(
            [sel |-> IF close \/ InSeq(conf, sel0) THEN sel0
                     ELSE Append(sel0, conf),
             dup |-> acc.dup + (IF close THEN 1 ELSE 0)],
            i + 1, thr)

Thresholds == 0..(MaxEnergy + 1)

\* C26: on the conformers in non-decreasing energy order the pre-filter
\* gives the survivors and the duplicate count of the rule that compares a
\* conformer with the most recently accepted survivor only, whatever the
\* energies and whatever initial_energy_threshold.
C26_LastSurvivorSuffices ==
  Minimized =>
    \A thr \in Thresholds :
      prefilter(EnergyOrder, cenergy,
                [args EXCEPT !.initial_energy_threshold = thr])
        = LastSurvivorRule([sel |-> <<>>, dup |-> -1], 1, thr)

\* Energies 0, 1 and 2 with a threshold of 2: the third conformer is
\* within the threshold of the second, which was rejected, and at the
\* threshold from the only survivor.
C26_Witness ==
  /\ Filtered /\ cids = 3
  /\ cenergy = <<0, 1, 2>>
  /\ args.initial_energy_threshold = 2
  /\ selectedcids_initial = <<1, 3>>
  /\ LastSurvivorRule([sel |-> <<>>, dup |-> -1], 1, 2)
       = [sel |-> <<1, 3>>, dup |-> 1]
  /\ LastSurvivorRule([sel |-> <<>>, dup |-> -1], 1, 0)
       = [sel |-> <<1, 2, 3>>, dup |-> -1]

\* ----------------------------------------------------------------- C27
\* The four classes of a refinement pass.
Classified ==
  mm.acc.n_high + mm.acc.n_dup_energy + mm.acc.n_dup_rms_eng
    + Len(mm.acc.c_energy)

RefinementClosed == Refining /\ pc \in {"refine", "cleanup", "done"}

\* C27: every conformer mult_min has processed is in exactly one of the
\* classes high energy, energy duplicate, geometry duplicate and accepted;
\* when the pass is over the four counts add up to the number of input
\* conformers, and the unique count of the row is the number of records
\* written to the refined ensemble.
C27_RefinementPartition ==
  /\ Refining => /\ Classified = mm.i - 1
                 /\ Len(mm.acc.outmols) = Len(mm.acc.c_energy)
  /\ RefinementClosed =>
       /\ Classified = Len(mm.input)
       /\ dup_data[ProgramPrefix \o "-Initial-samples"] = Cell(Classified)
       /\ dup_data[ProgramPrefix \o "-Unique-conformers"]
            = Cell(Len(mm.written))
       /\ Len(mm.written) = Len(mm.acc.c_energy)

\* A finished pass over three conformers: one accepted and written, one a
\* geometry duplicate of it, one rejected as high in energy.
C27_Witness ==
  /\ RefinementClosed
  /\ Len(mm.input) = 3
  /\ mm.acc.n_high = 1
  /\ mm.acc.n_dup_rms_eng = 1
  /\ Len(mm.written) = 1

\* ----------------------------------------------------------------- C28
\* The lowest of the first j accepted energies.
RECURSIVE LowestAccepted(_)
LowestAccepted(j) ==
  IF j = 1 THEN mm.acc.c_energy[1]
  ELSE MinOf(mm.acc.c_energy[j], LowestAccepted(j - 1))

\* C28 as the code has it: a conformer is accepted only while it lies less
\* than ewin above the running global minimum, the minimum over the
\* conformers processed up to and including it; so every accepted
\* conformer lies less than ewin above the lowest energy accepted up to
\* it, and no bound holds against conformers that come later in the file.
C28_AcceptedWithinRunningWindow ==
  /\ [][(pc = "mult_min"
           /\ Len(mm'.acc.c_energy) > Len(mm.acc.c_energy)) =>
         mm'.acc.c_energy[Len(mm'.acc.c_energy)] - mm'.acc.globmin[1]
           < args.ewin]_vars
  /\ [](Refining =>
          \A j \in 1..Len(mm.acc.c_energy) :
            mm.acc.c_energy[j] - LowestAccepted(j) < args.ewin)

\* A finished pass that accepted a conformer of energy 2 and then one of
\* energy 0, with a window of 2.
C28_Witness ==
  /\ RefinementClosed
  /\ args.ewin = 2
  /\ mm.acc.c_energy = <<2, 0>>
  /\ mm.acc.globmin = <<0>>

\* C28: when a refinement pass is over, every accepted conformer lies less
\* than ewin above the global minimum the pass ended with, in whatever
\* order the conformers were in the input file.
C28_AcceptedWithinFinalWindow ==
  RefinementClosed =>
    \A j \in 1..Len(mm.acc.c_energy) :
      mm.acc.c_energy[j] - mm.acc.globmin[1] < args.ewin

\* ----------------------------------------------------------------- C29
\* C29: the running global minimum of a refinement pass is the minimum
\* over every conformer processed so far, the rejected ones included; a
\* conformer on which the optimiser ran out of steps takes part in it like
\* any other, is rejected, and the pass goes on to judge the later
\* conformers against the minimum it left.
C29_MinimumOverAllProcessed ==
  /\ [][(pc = "mult_min" /\ mm'.i = mm.i + 1) =>
         \E res \in mol.sqm :
            mm'.acc.globmin
              = <<IF mm.acc.globmin = <<>> THEN res.energy
                  ELSE MinOf(mm.acc.globmin[1], res.energy)>>]_vars
  /\ [](mm.ran_out =>
          /\ mm.acc.globmin # <<>>
          /\ pc \in {"mult_min", "refine", "cleanup", "done"})

\* C30 -- admission reads the bond count found before nodihedrals is
\* applied.  With the dihedral scan disabled, a molecule with more rotatable
\* bonds than max_torsions is still skipped as a whole (status -1, reason
\* logged, no stage run, nothing written); a molecule at or below the
\* ceiling is admitted, enumerated with an empty bond list, and every
\* selected conformer is written to <name>_rdkit.sdf exactly once, in order.
C30_AdmissionBeforeNodihedrals ==
  /\ (args.nodihedrals /\ PastAdmission /\ OverLimit) =>
       /\ status = -1
       /\ InSeq("x  Too many torsions. Skipping", log)
       /\ stages = <<>>
       /\ embed_calls = <<>>
       /\ rdkit_sdf = <<>> /\ rotated_sdf = <<>>
  /\ (args.nodihedrals /\ PastAdmission /\ ~OverLimit) =>
       /\ rotmatches = 0
       /\ ~InSeq("x  Too many torsions. Skipping", log)
       /\ pc \notin {"summ_search", "admission", "embed"} => Embedded
       /\ Enumerated =>
            /\ Len(rdkit_sdf) = Len(selectedcids)
            /\ \A j \in 1..Len(selectedcids) :
                 /\ rdkit_sdf[j].name = selectedcids[j]
                 /\ Len(RecordsOf(selectedcids[j])) = 1
            /\ dup_data["RDKIT-Rotated-conformers"]
                 = Cell(Len(selectedcids))

\* Scan disabled, two rotatable bonds and a ceiling of one: the run is over
\* and the molecule was skipped.
C30_Witness ==
  /\ pc = "done"
  /\ args.nodihedrals
  /\ mol.dihedrals = 2 /\ args.max_torsions = 1
  /\ status = -1
  /\ stages = <<>>
====
